---- MODULE Spec2Model ----
(***************************************************************************)
(* Package selection reconciler and configuration document model of the   *)
(* OpenWrt firmware configurator.                                          *)
(*                                                                         *)
(* The package store (stores/package.ts) is not part of the sources at     *)
(* hand; its primitives are written from section 4.4 of the design         *)
(* document.  Everything else is translated from the components, the       *)
(* customBuild store, the config store and the ConfigurationManager        *)
(* service.                                                                *)
(***************************************************************************)
EXTENDS Integers, Sequences, FiniteSets, TLC

(***************************************************************************)
(* Bounds                                                                  *)
(***************************************************************************)
\* longest bulk-add input, in tokens
MaxBulk == 2

\* package names of the loaded catalog (packageStore.allPackages)
PkgNames == {"base", "luci", "vim"}

\* a name a user may type that is in no feed
GhostName == "ghost"

BulkNames == PkgNames \cup {GhostName}

(***************************************************************************)
(* Sequence helpers: a JavaScript Set keeps insertion order, so the two    *)
(* selection sets are duplicate-free sequences.                            *)
(***************************************************************************)
Range(s) == {s[i] : i \in 1..Len(s)}

\* Set.prototype.add
SetAdd(s, n) == IF n \in Range(s) THEN s ELSE Append(s, n)

\* Set.prototype.delete
SetDelete(s, n) == SelectSeq(s, LAMBDA x : x # n)

\* Array.from(new Set(names)): first occurrences, in order
RECURSIVE Unique(_)
Unique(s) ==
  IF s = <<>> THEN <<>>
  ELSE LET r == Unique(SubSeq(s, 1, Len(s) - 1))
       IN  IF s[Len(s)] \in Range(r) THEN r ELSE Append(r, s[Len(s)])

SeqsUpTo(S, k) == UNION {[1..m -> S] : m \in 0..k}

VARIABLES
  addedPackages,              \* packageStore: explicitly added names
  removedPackages,            \* packageStore: excluded default names
  defaultPackages,            \* default + device packages of the profile
  bulkInput,                  \* PackageManager.vue: tokens of the text area
  bulkRequiresConfirmation,   \* PackageManager.vue
  bulkConfirmationSignature,  \* PackageManager.vue
  hist,                       \* the last reconciler operations
  selectedDevice,             \* firmwareStore.selectedDevice
  currentVersion,             \* firmwareStore.currentVersion
  deviceSeen,                 \* old value held by the selectedDevice watcher
  versionSeen,                \* old value held by the currentVersion watcher
  load,                       \* the configuration load in progress
  currentConfigName,          \* configStore.currentConfigName
  currentConfigId,            \* configStore.currentConfigId
  watchDone,                  \* the watcher callback that ran last, if any
  input,                      \* content and format typed into the import form
  savedConfigs,               \* localStorage 'openwrt-configs'
  file,                       \* the last downloaded export, if any
  imp,                        \* the last import since the last export:
                              \* its source, format, document and result
  lastUsedConfigId,           \* localStorage 'openwrt-last-config'
  now,                        \* the instant new Date() returns
  idsGenerated,               \* the number of ids generateId has made
  error,                      \* configStore.error
  job,                        \* a call of a package service function: its
                              \* name, argument and, once done, result
  repositories,               \* customBuildStore.repositories
  fetches,                    \* the feed fetches in flight
  catalog,                    \* packageStore: the package records
  loaded,                     \* the package lists merged so far, in order
  edits,                      \* the number of edits of repository fields
  reposAdded,                 \* the number of repository entries added
  lastFetch,                  \* the feed fetch that completed last
  uciDefaults,                \* customBuildStore.uciDefaults
  rootfsSizeMb,               \* customBuildStore.rootfsSizeMb
  repositoryKeys,             \* customBuildStore.repositoryKeys
  isBuilding,                 \* CustomBuild.vue: a build request is on its way
  buildStatus,                \* CustomBuild.vue: the last response shown
  buildError,                 \* CustomBuild.vue
  pollInterval,               \* the build request the timer polls for, or 0
  buildsRequested,            \* the number of build requests made
  requestPending,             \* the build request awaiting its response, or 0
  polls,                      \* status polls in flight, per build request
  pollsStarted,               \* the number of status polls started
  emitted,                    \* the build-success and build-error events
  stale                       \* the build requests made before the last reset

recVars == <<addedPackages, removedPackages, defaultPackages, bulkInput,
             bulkRequiresConfirmation, bulkConfirmationSignature, hist>>

lifeVars == <<selectedDevice, currentVersion, deviceSeen, versionSeen, load,
              currentConfigName, currentConfigId>>

docVars ==
  <<input, savedConfigs, file, imp, lastUsedConfigId, now, idsGenerated>>

repoVars ==
  <<repositories, fetches, catalog, loaded, edits, reposAdded, lastFetch>>

\* no fetch has completed
NoFetch == [key |-> 0, outcome |-> "none", present |-> FALSE]

buildVars ==
  <<isBuilding, buildStatus, buildError, pollInterval, buildsRequested,
    requestPending, polls, pollsStarted, emitted, stale>>

snapVars == <<uciDefaults, rootfsSizeMb, repositoryKeys>>

feedVars == <<job, repoVars, snapVars, buildVars>>

vars == <<recVars, lifeVars, watchDone, docVars, error, feedVars>>

\* no call of the package service
NoJob == [fn |-> "none", input |-> <<>>, output |-> <<>>, done |-> TRUE]

\* no custom repository, nothing fetched
RepoIdle ==
  /\ repositories = <<>>
  /\ fetches = {}
  /\ catalog = <<>>
  /\ loaded = <<>>
  /\ edits = 0
  /\ reposAdded = 0
  /\ lastFetch = NoFetch
  /\ uciDefaults = ""
  /\ rootfsSizeMb = <<"null">>
  /\ repositoryKeys = <<>>

\* most build requests, and most status polls
MaxBuilds == 2
MaxPolls == 3

\* no build requested
BuildIdle ==
  /\ isBuilding = FALSE
  /\ buildStatus = <<"null">>
  /\ buildError = ""
  /\ pollInterval = 0
  /\ buildsRequested = 0
  /\ requestPending = 0
  /\ polls = [r \in 1..MaxBuilds |-> 0]
  /\ pollsStarted = 0
  /\ emitted = <<>>
  /\ stale = {}

FeedIdle == job = NoJob /\ RepoIdle /\ BuildIdle

(***************************************************************************)
(* JavaScript values of a configuration document.  A value is a tagged     *)
(* tuple; an absent property reads as undefined.  Every object is a record *)
(* over all the property names of its kind.                                *)
(***************************************************************************)
Undef == <<"undefined">>
Null == <<"null">>
Str(s) == <<"str", s>>
\* the string that is the ISO form of instant n
Iso(n) == <<"iso", n>>
\* a Date object; InvalidTime stands for Invalid Date
DateV(n) == <<"date", n>>
Arr(q) == <<"arr", q>>
Obj(r) == <<"obj", r>>
Num(n) == <<"num", n>>

InvalidTime == -1
EpochTime == 0
\* the clock starts at StartTime and is followed up to MaxTime
StartTime == 1
MaxTime == 2

Truthy(v) == v \notin {Undef, Null, Str("")}
TypeofObject(v) == v[1] \in {"obj", "arr", "date", "null"}
TypeofString(v) == v[1] \in {"str", "iso"}
IsArray(v) == v[1] = "arr"

\* property read v[f]
Get(v, f) == IF v[1] = "obj" THEN v[2][f] ELSE Undef

\* new Date(v)
newDate(v) ==
  IF v[1] \in {"date", "iso"} THEN DateV(v[2])
  ELSE IF v = Null THEN DateV(EpochTime)
  ELSE DateV(InvalidTime)

\* JSON.parse(JSON.stringify(v)): a Date becomes its ISO string, an
\* Invalid Date becomes null; strings and arrays of strings are kept
RECURSIVE Json(_)
Json(v) ==
  IF v[1] = "date" THEN (IF v[2] = InvalidTime THEN Null ELSE Iso(v[2]))
  ELSE IF v[1] = "obj" THEN Obj([f \in DOMAIN v[2] |-> Json(v[2][f])])
  ELSE v

JsonDoc(doc) == [f \in DOMAIN doc |-> Json(doc[f])]

DocFields == {"id", "name", "description", "version", "createdAt",
              "updatedAt", "device", "customBuild", "modules",
              "exportedAt", "exportVersion"}

EmptyDoc == [f \in DocFields |-> Undef]

Device(model, target, profile, version) ==
  Obj([model |-> model, target |-> target, profile |-> profile,
       version |-> version])

PackageConfiguration(a, r) ==
  Obj([addedPackages |-> a, removedPackages |-> r])

CustomBuild(pc, uci, repos, keys) ==
  Obj([packageConfiguration |-> pc, uciDefaults |-> uci,
       rootfsSizeMb |-> Undef, repositories |-> repos,
       repositoryKeys |-> keys, packages |-> Undef])

Modules(sources, selections) ==
  Obj([sources |-> sources, selections |-> selections])

(***************************************************************************)
(* ConfigurationManager service                                            *)
(***************************************************************************)
CURRENT_VERSION == "1.0.0"

\* generateId: a fresh id at every call
generateId == Str("config_" \o ToString(idsGenerated))

\* a text: the format it is written in, whether it starts with '---', and
\* the document it denotes
Content(fmt, dashes, doc) == [fmt |-> fmt, dashes |-> dashes, doc |-> doc]

\* the parse step of importConfiguration: YAML.load or JSON.parse
parseContent(content, format) ==
  IF format = "yaml" \/ content.dashes
    THEN IF content.fmt \in {"yaml", "json"} THEN "doc"
         ELSE IF content.fmt = "text" THEN "scalar"
         ELSE "throw"
    ELSE IF content.fmt = "json" THEN "doc" ELSE "throw"

\* one error of validateConfigurationData, if its condition holds
Err(c, e) == IF c THEN <<e>> ELSE <<>>

nameErrors(data) ==
  Err(~Truthy(data.name) \/ ~TypeofString(data.name), "missing-name")

deviceErrors(data) ==
  LET device == data.device IN
  IF ~Truthy(device) \/ ~TypeofObject(device)
    THEN <<"missing-device">>
    ELSE Err(~Truthy(Get(device, "model")), "missing-device-field:model")
      \o Err(~Truthy(Get(device, "target")), "missing-device-field:target")
      \o Err(~Truthy(Get(device, "version")), "missing-device-field:version")

customBuildErrors(data) ==
  LET cb == data.customBuild
      pc == Get(cb, "packageConfiguration")
  IN  IF ~Truthy(cb) \/ ~TypeofObject(cb)
        THEN <<"missing-custom-build">>
        ELSE Err(~Truthy(pc) \/ ~TypeofObject(pc)
                   \/ ~IsArray(Get(pc, "addedPackages"))
                   \/ ~IsArray(Get(pc, "removedPackages")), "packages-format")
          \o Err(~IsArray(Get(cb, "repositories")), "repos-format")
          \o Err(~IsArray(Get(cb, "repositoryKeys")), "keys-format")

modulesErrors(data) ==
  LET mods == data.modules IN
  IF mods = Undef THEN <<>>
  ELSE IF ~Truthy(mods) \/ ~TypeofObject(mods)
    THEN <<"modules-format">>
    ELSE Err(~IsArray(Get(mods, "sources")), "module-sources-format")
      \o Err(~IsArray(Get(mods, "selections")), "module-selection-format")

\* validateConfigurationData that returns at the first section in error
validateConfigurationData_failFast(data) ==
  IF nameErrors(data) # <<>> THEN nameErrors(data)
  ELSE IF deviceErrors(data) # <<>> THEN deviceErrors(data)
  ELSE IF customBuildErrors(data) # <<>> THEN customBuildErrors(data)
  ELSE modulesErrors(data)

\* validateConfigurationData that also requires device.profile
validateConfigurationData_requiresProfile(data) ==
  nameErrors(data) \o deviceErrors(data)
    \o Err(~Truthy(Get(data.device, "profile")),
           "missing-device-field:profile")
    \o customBuildErrors(data) \o modulesErrors(data)

\* the errors of a parsed object, in the order they are pushed
validateConfigurationData(data) ==
  nameErrors(data) \o deviceErrors(data) \o customBuildErrors(data)
    \o modulesErrors(data)

Failure(kind, errors) ==
  [success |-> FALSE, kind |-> kind, errors |-> errors, config |-> EmptyDoc,
   warnings |-> <<>>]

\* importConfiguration that always generates a new id
importConfiguration_newId(content, format) ==
  LET how == parseContent(content, format)
      data == content.doc
      errors == validateConfigurationData(data)
  IN  IF how = "throw" THEN Failure("parse-failed", <<>>)
      ELSE IF how = "scalar" THEN Failure("invalid", <<"invalid-format">>)
      ELSE IF errors # <<>> THEN Failure("invalid", errors)
      ELSE [success |-> TRUE, kind |-> "ok", errors |-> <<>>,
            config |-> [data EXCEPT
               !.id = generateId,
               !.createdAt = IF Truthy(data.createdAt)
                               THEN newDate(data.createdAt)
                               ELSE DateV(now),
               !.updatedAt = DateV(now),
               !.version = Str(CURRENT_VERSION)],
            warnings |-> IF Truthy(data.version)
                            /\ data.version # Str(CURRENT_VERSION)
                           THEN <<"version-warning">> ELSE <<>>]

importConfiguration(content, format) ==
  LET how == parseContent(content, format)
      data == content.doc
      errors == validateConfigurationData(data)
  IN  IF how = "throw" THEN Failure("parse-failed", <<>>)
      ELSE IF how = "scalar" THEN Failure("invalid", <<"invalid-format">>)
      ELSE IF errors # <<>> THEN Failure("invalid", errors)
      ELSE [success |-> TRUE, kind |-> "ok", errors |-> <<>>,
            config |-> [data EXCEPT
               !.id = IF Truthy(data.id) THEN data.id ELSE generateId,
               !.createdAt = IF Truthy(data.createdAt)
                               THEN newDate(data.createdAt)
                               ELSE DateV(now),
               !.updatedAt = DateV(now),
               !.version = Str(CURRENT_VERSION)],
            warnings |-> IF Truthy(data.version)
                            /\ data.version # Str(CURRENT_VERSION)
                           THEN <<"version-warning">> ELSE <<>>]

\* getAllConfigurations applied to one stored entry
readStored(j) ==
  [j EXCEPT !.createdAt = newDate(j.createdAt),
            !.updatedAt = newDate(j.updatedAt)]

\* saveConfiguration followed by getAllConfigurations: the list as the next
\* reader sees it
saveConfiguration(configs, config) ==
  LET c == readStored(JsonDoc([config EXCEPT
                                 !.updatedAt = DateV(now),
                                 !.version = Str(CURRENT_VERSION)]))
      hit == {i \in 1..Len(configs) : configs[i].id = c.id}
  IN  IF hit # {}
        THEN [i \in 1..Len(configs) |->
                IF i = CHOOSE k \in hit : \A m \in hit : k <= m
                  THEN c ELSE configs[i]]
        ELSE Append(configs, c)

ExportOptions ==
  [includeModuleSources : BOOLEAN, includePackages : BOOLEAN,
   includeUciDefaults : BOOLEAN, format : {"json", "yaml"}]

\* exportConfiguration throws when it writes into the missing modules block
exportThrows(config, options) ==
  ~options.includeModuleSources /\ config.modules[1] # "obj"

SetField(v, f, x) == Obj([v[2] EXCEPT ![f] = x])

exportConfiguration(config, options) ==
  LET e0 == [config EXCEPT !.exportedAt = DateV(now),
                           !.exportVersion = Str(CURRENT_VERSION)]
      e1 == IF options.includeModuleSources THEN e0
            ELSE [e0 EXCEPT !.modules = SetField(@, "sources", Arr(<<>>))]
      e2 == IF options.includePackages THEN e1
            ELSE [e1 EXCEPT !.customBuild = SetField(@, "packages", Arr(<<>>))]
      e3 == IF options.includeUciDefaults THEN e2
            ELSE [e2 EXCEPT !.customBuild = SetField(@, "uciDefaults", Undef)]
  IN  IF options.format = "yaml"
        THEN Content("yaml", FALSE, e3)
        ELSE Content("json", FALSE, JsonDoc(e3))

(***************************************************************************)
(* Package store primitives (section 4.4 of the design document)           *)
(***************************************************************************)
isPackageInDefaults(n) == n \in defaultPackages

\* status of a name: selected, removed, default, available (in this order)
getPackageStatus(added, removed, n) ==
  IF n \in Range(added) \/ (isPackageInDefaults(n) /\ n \notin Range(removed))
    THEN "selected"
  ELSE IF n \in Range(removed) THEN "removed"
  ELSE IF isPackageInDefaults(n) THEN "default"
  ELSE "available"

isPackageSelected(added, removed, n) ==
  getPackageStatus(added, removed, n) = "selected"

\* a selection state is a record [added, removed] of the two sequences
Sel(a, r) == [added |-> a, removed |-> r]

\* packageStore.addPackage: a device default is never inserted
storeAddPackage(s, n) ==
  IF isPackageInDefaults(n) THEN s
  ELSE Sel(SetAdd(s.added, n), s.removed)

\* packageStore.removeRemovedPackage (also the restore button)
removeRemovedPackage(s, n) == Sel(s.added, SetDelete(s.removed, n))

\* togglePackage that tests the removed set before the default list
togglePackage_addsDefault(s, n) ==
  IF n \in Range(s.removed) THEN Sel(s.added, SetDelete(s.removed, n))
  ELSE IF n \in Range(s.added) THEN Sel(SetDelete(s.added, n), s.removed)
  ELSE Sel(SetAdd(s.added, n), s.removed)

\* packageStore.togglePackage
togglePackage(s, n) ==
  LET st == getPackageStatus(s.added, s.removed, n) IN
  IF st = "selected" THEN
       IF isPackageInDefaults(n)
         THEN Sel(s.added, SetAdd(s.removed, n))
         ELSE Sel(SetDelete(s.added, n), s.removed)
  ELSE IF st = "removed" THEN Sel(s.added, SetDelete(s.removed, n))
  ELSE Sel(SetAdd(s.added, n), s.removed)

\* packageStore.clearAllPackages
clearAllPackages == Sel(<<>>, <<>>)

\* buildPackagesList that leaves the removals without their '-' prefix
buildPackagesList_bareRemovals(s) == s.added \o s.removed

\* packageStore.buildPackagesList
buildPackagesList(s) ==
  s.added \o [i \in 1..Len(s.removed) |-> "-" \o s.removed[i]]

(***************************************************************************)
(* PackageManager.vue                                                      *)
(***************************************************************************)
\* addPackage without the call that clears the removal marker
addPackage_keepsRemoval(s, n) == storeAddPackage(s, n)

addPackage(s, n) == removeRemovedPackage(storeAddPackage(s, n), n)

\* removePackage that marks the name as removed whatever its status
removePackage_alwaysExcludes(s, n) == Sel(s.added, SetAdd(s.removed, n))

\* removePackage that only deselects and never excludes a default
removePackage_onlyDeselects(s, n) == Sel(SetDelete(s.added, n), s.removed)

removePackage(s, n) == togglePackage(s, n)

RECURSIVE applyBulkAdd(_, _)
applyBulkAdd(s, packages) ==
  IF packages = <<>> THEN s
  ELSE LET n == Head(packages)
           t == IF isPackageInDefaults(n)
                  THEN removeRemovedPackage(s, n)
                  ELSE storeAddPackage(s, n)
       IN  applyBulkAdd(t, Tail(packages))

(***************************************************************************)
(* History: the last operation with the state it started in, and before   *)
(* it the operation that preceded it when that one was on the same name.   *)
(***************************************************************************)
NoLoad == [pc |-> "idle", doc |-> EmptyDoc, reset |-> FALSE, shared |-> FALSE]

NoInput == [content |-> Content("none", FALSE, EmptyDoc), format |-> "json"]

NoImport ==
  [source |-> "none", format |-> "json", data |-> EmptyDoc,
   result |-> Failure("none", <<>>)]

NoOp == [op |-> "none", names |-> <<>>, preAdded |-> {}, preRemoved |-> {}]

Op(o, ns) ==
  [op |-> o, names |-> ns,
   preAdded |-> Range(addedPackages), preRemoved |-> Range(removedPackages)]

Record(o, ns) ==
  hist' = <<IF Len(ns) = 1 /\ hist[2].names = ns THEN hist[2] ELSE NoOp,
            Op(o, ns)>>

cur == Sel(addedPackages, removedPackages)

Install(s) ==
  /\ addedPackages' = s.added
  /\ removedPackages' = s.removed

bulkVars == <<bulkInput, bulkRequiresConfirmation, bulkConfirmationSignature>>

(***************************************************************************)
(* Devices, versions and watchers                                          *)
(***************************************************************************)
NoDevice == "none"
NoVersion == ""
Devices == {"d1", "d2"}
Versions == {"v1", "v2"}

\* as if a watcher callback could run after later event handlers
Quiet_late == TRUE

\* no watcher callback is pending: a callback runs in the microtask after
\* the change, before any other event handler
Quiet ==
  /\ deviceSeen = selectedDevice
  /\ versionSeen = currentVersion

\* the package manager buttons are disabled while no device is selected
DeviceSelected == selectedDevice # NoDevice

\* an event handler of the package manager ran: it is not a watcher callback
RecFrame ==
  /\ Quiet
  /\ UNCHANGED feedVars
  /\ DeviceSelected
  /\ watchDone' = "none"
  /\ UNCHANGED <<lifeVars, docVars, error>>

(***************************************************************************)
(* Reconciler actions                                                      *)
(***************************************************************************)
AddPackage(n) ==
  /\ Install(addPackage(cur, n))
  /\ Record("add", <<n>>)
  /\ UNCHANGED <<defaultPackages, bulkVars>>
  /\ RecFrame

\* the delete button of a row of the selected list
RemovePackage(n) ==
  /\ isPackageSelected(addedPackages, removedPackages, n)
  /\ Install(removePackage(cur, n))
  /\ Record("remove", <<n>>)
  /\ UNCHANGED <<defaultPackages, bulkVars>>
  /\ RecFrame

\* the four buttons of a row of the add dialog
TogglePackage(n) ==
  /\ Install(togglePackage(cur, n))
  /\ Record("toggle", <<n>>)
  /\ UNCHANGED <<defaultPackages, bulkVars>>
  /\ RecFrame

\* the restore button of a row of the removed list
RestorePackage(n) ==
  /\ n \in Range(removedPackages)
  /\ Install(removeRemovedPackage(cur, n))
  /\ Record("restore", <<n>>)
  /\ UNCHANGED <<defaultPackages, bulkVars>>
  /\ RecFrame

ClearAllPackages ==
  /\ Range(addedPackages) \cup Range(removedPackages) # {}
  /\ Install(clearAllPackages)
  /\ Record("clear", <<>>)
  /\ UNCHANGED <<defaultPackages, bulkVars>>
  /\ RecFrame

\* typing in the bulk text area; the watcher on bulkInput clears the rest
SetBulkInput(txt) ==
  /\ txt # bulkInput
  /\ bulkInput' = txt
  /\ bulkRequiresConfirmation' = FALSE
  /\ bulkConfirmationSignature' = <<>>
  /\ UNCHANGED <<addedPackages, removedPackages, defaultPackages, hist>>
  /\ RecFrame

SubmitBulkAdd ==
  /\ bulkInput # <<>>
  /\ RecFrame
  /\ LET uniqueNames == Unique(bulkInput)
         found   == SelectSeq(uniqueNames, LAMBDA x : x \in PkgNames)
         missing == SelectSeq(uniqueNames, LAMBDA x : x \notin PkgNames)
         requires == IF uniqueNames # bulkConfirmationSignature
                       THEN FALSE ELSE bulkRequiresConfirmation
     IN
       IF found = <<>> THEN
         /\ bulkRequiresConfirmation' = requires
         /\ bulkConfirmationSignature' = uniqueNames
         /\ UNCHANGED <<addedPackages, removedPackages, defaultPackages,
                        bulkInput, hist>>
       ELSE IF missing # <<>> /\ ~requires THEN
         /\ bulkRequiresConfirmation' = TRUE
         /\ bulkConfirmationSignature' = uniqueNames
         /\ UNCHANGED <<addedPackages, removedPackages, defaultPackages,
                        bulkInput, hist>>
       ELSE
         /\ Install(applyBulkAdd(cur, found))
         /\ Record("bulk", found)
         /\ bulkInput' = <<>>
         /\ bulkRequiresConfirmation' = FALSE
         /\ bulkConfirmationSignature' = <<>>
         /\ UNCHANGED defaultPackages

RecInit ==
  /\ addedPackages = <<>>
  /\ removedPackages = <<>>
  /\ defaultPackages \in SUBSET PkgNames
  /\ bulkInput = <<>>
  /\ bulkRequiresConfirmation = FALSE
  /\ bulkConfirmationSignature = <<>>
  /\ hist = <<NoOp, NoOp>>
  /\ selectedDevice = "d1"
  /\ currentVersion = "v1"
  /\ deviceSeen = "d1"
  /\ versionSeen = "v1"
  /\ load = NoLoad
  /\ currentConfigName = ""
  /\ currentConfigId = ""
  /\ watchDone = "none"
  /\ input = NoInput
  /\ savedConfigs = <<>>
  /\ file = <<>>
  /\ imp = NoImport
  /\ now = StartTime
  /\ idsGenerated = 0
  /\ error = ""
  /\ FeedIdle
  /\ lastUsedConfigId = ""

RecNext ==
  \/ \E n \in PkgNames : AddPackage(n)
  \/ \E n \in PkgNames : RemovePackage(n)
  \/ \E n \in PkgNames : TogglePackage(n)
  \/ \E n \in PkgNames : RestorePackage(n)
  \/ ClearAllPackages
  \/ \E txt \in SeqsUpTo(BulkNames, MaxBulk) : SetBulkInput(txt)
  \/ SubmitBulkAdd

(***************************************************************************)
(* customBuild store and CustomBuild.vue: reset and the two watchers       *)
(***************************************************************************)
\* customBuildStore.reset, as far as the selection state goes
reset(s) == clearAllPackages

\* customBuildStore.reset, the fields of the store itself
ResetStore ==
  /\ uciDefaults' = ""
  /\ rootfsSizeMb' = Null
  /\ repositories' = <<>>
  /\ repositoryKeys' = <<>>

\* CustomBuild.vue resetCustomConfiguration
resetCustomConfiguration(s) == reset(s)

\* resetCustomConfiguration besides the selection: polling stops, the build
\* state is cleared and the store is reset
ResetCustom ==
  /\ pollInterval' = 0
  /\ buildStatus' = Null
  /\ buildError' = ""
  /\ stale' = 1..buildsRequested
  /\ ResetStore
  /\ UNCHANGED <<isBuilding, buildsRequested, requestPending, polls,
                 pollsStarted, emitted>>
  /\ UNCHANGED <<fetches, catalog, loaded, edits, reposAdded, lastFetch>>

\* watch(() => firmware.selectedDevice, ...)
watchSelectedDevice(s, newDevice, oldDevice) ==
  IF oldDevice = NoDevice THEN s ELSE resetCustomConfiguration(s)

\* watch(() => firmware.currentVersion, ...)
watchCurrentVersion(s, newVersion, oldVersion) ==
  IF oldVersion # NoVersion /\ newVersion # oldVersion
    THEN resetCustomConfiguration(s)
    ELSE s

\* packageStore.setPackageConfiguration: the arrays become the two sets
setPackageConfiguration(pc) ==
  Sel(Unique(pc.addedPackages), Unique(pc.removedPackages))

\* customBuildStore.applySnapshot, as far as the selection state goes
applySnapshot(snapshot) ==
  LET pkgConfig == Get(snapshot, "packageConfiguration")
      a == Get(pkgConfig, "addedPackages")
      r == Get(pkgConfig, "removedPackages")
  IN  setPackageConfiguration(
        [addedPackages   |-> IF IsArray(a) THEN a[2] ELSE <<>>,
         removedPackages |-> IF IsArray(r) THEN r[2] ELSE <<>>])

\* a repository entry as applySnapshot copies it from a document; the
\* copies are numbered apart from the entries the user adds
CopiedRepository(repo, key) ==
  [key |-> key, failed |-> FALSE, name |-> Get(repo, "name")[2],
   url |-> Get(repo, "url")[2], loading |-> FALSE, packages |-> Undef,
   error |-> Undef]

\* customBuildStore.applySnapshot, the fields of the store itself
ApplySnapshotStore(snapshot) ==
  LET u == Get(snapshot, "uciDefaults")
      n == Get(snapshot, "rootfsSizeMb")
      repos == Get(snapshot, "repositories")
      keys == Get(snapshot, "repositoryKeys")
  IN  /\ uciDefaults' = IF u[1] = "str" THEN u[2] ELSE ""
      /\ rootfsSizeMb' = IF n[1] = "num" THEN n ELSE Null
      /\ repositories' =
           IF IsArray(repos)
             THEN [i \in 1..Len(repos[2]) |->
                     CopiedRepository(repos[2][i], 0 - i)]
             ELSE <<>>
      /\ repositoryKeys' = IF IsArray(keys) THEN keys[2] ELSE <<>>

\* default and device packages of the profile of a device
ProfileDefaults(d) ==
  IF d = "d1" THEN {"base"}
  ELSE IF d = "d2" THEN {"base", "luci"}
  ELSE {}

\* saved configurations that can be loaded
SavedDoc(d, v, a, r) ==
  [EmptyDoc EXCEPT
     !.id = Str("c1"),
     !.name = Str("cfg"),
     !.version = Str(CURRENT_VERSION),
     !.createdAt = DateV(1),
     !.updatedAt = DateV(1),
     !.device = Device(Str(d), Str("t"), Str("p"), Str(v)),
     !.customBuild = CustomBuild(PackageConfiguration(Arr(a), Arr(r)),
                                 Undef, Arr(<<>>), Arr(<<>>))]

\* a root file system size, in MB
RootfsSize == 64

\* storage holds what import accepted and saved
SavedDocs ==
  { doc \in { SavedDoc("d1", "v1", <<"vim">>, <<"base">>),
              [SavedDoc("d2", "v2", <<"vim">>, <<>>) EXCEPT
                 !.customBuild =
                   SetField(
                     CustomBuild(
                       PackageConfiguration(Arr(<<"vim">>), Arr(<<"luci">>)),
                       Str("script"),
                       Arr(<<Obj([name |-> Str(<<"A">>),
                                  url |-> Str(<<"a">>)])>>),
                       Arr(<<"key">>)),
                     "rootfsSizeMb", Num(RootfsSize))],
              SavedDoc("d1", "v1", <<"base", "vim">>, <<>>) } :
      validateConfigurationData(JsonDoc(doc)) = <<>> }

(***************************************************************************)
(* Lifecycle actions                                                       *)
(***************************************************************************)
selVars == <<addedPackages, removedPackages>>

LifeFrame ==
  /\ Quiet
  /\ UNCHANGED feedVars
  /\ watchDone' = "none"
  /\ UNCHANGED <<bulkVars, hist, docVars, error>>

\* App.vue onMounted: firmwareStore.loadVersions picks the current version
LoadVersions ==
  /\ currentVersion = NoVersion
  /\ currentVersion' = "v1"
  /\ LifeFrame
  /\ UNCHANGED <<selVars, defaultPackages, selectedDevice, deviceSeen,
                 versionSeen, load, currentConfigName,
                 currentConfigId>>

\* the user picks another firmware version
ChangeVersion(v) ==
  /\ currentVersion # NoVersion
  /\ v # currentVersion
  /\ currentVersion' = v
  /\ LifeFrame
  /\ UNCHANGED <<selVars, defaultPackages, selectedDevice, deviceSeen,
                 versionSeen, load, currentConfigName,
                 currentConfigId>>

\* the user picks a device
SelectDevice(d) ==
  /\ currentVersion # NoVersion
  /\ d # selectedDevice
  /\ selectedDevice' = d
  /\ defaultPackages' = ProfileDefaults(d)
  /\ LifeFrame
  /\ UNCHANGED <<selVars, currentVersion, deviceSeen, versionSeen, load,
                 currentConfigName,
                 currentConfigId>>

\* a reset that runs while a load is in progress is remembered with it
DuringLoad ==
  IF load.pc = "idle" THEN load ELSE [load EXCEPT !.reset = TRUE]

\* callback of the selectedDevice watcher
WatchSelectedDevice ==
  /\ deviceSeen # selectedDevice
  /\ Install(watchSelectedDevice(cur, selectedDevice, deviceSeen))
  /\ IF deviceSeen = NoDevice
       THEN UNCHANGED <<repoVars, snapVars, buildVars, load>>
       ELSE ResetCustom /\ load' = DuringLoad
  /\ deviceSeen' = selectedDevice
  /\ watchDone' = "device"
  /\ UNCHANGED <<defaultPackages, bulkVars, hist, selectedDevice,
                 currentVersion, versionSeen, currentConfigName,
                 currentConfigId, docVars, error, job>>

\* callback of the currentVersion watcher
WatchCurrentVersion ==
  /\ versionSeen # currentVersion
  /\ Install(watchCurrentVersion(cur, currentVersion, versionSeen))
  /\ IF versionSeen # NoVersion /\ currentVersion # versionSeen
       THEN ResetCustom /\ load' = DuringLoad
       ELSE UNCHANGED <<repoVars, snapVars, buildVars, load>>
  /\ versionSeen' = currentVersion
  /\ watchDone' = "version"
  /\ UNCHANGED <<defaultPackages, bulkVars, hist, selectedDevice,
                 currentVersion, deviceSeen, currentConfigName,
                 currentConfigId, docVars, error, job>>

\* loadConfiguration or loadSharedConfiguration up to the first await of
\* applyConfigurationState: firmwareStore.changeVersion
BeginLoad(doc, markAsShared) ==
  /\ load' = [pc |-> "device", doc |-> doc, reset |-> FALSE,
              shared |-> markAsShared]
  /\ currentVersion' = Get(doc.device, "version")[2]
  /\ error' = ""

\* configStore.loadConfiguration of a stored configuration
LoadStart(doc) ==
  /\ load.pc = "idle"
  /\ BeginLoad(doc, FALSE)
  /\ Quiet
  /\ UNCHANGED feedVars
  /\ watchDone' = "none"
  /\ UNCHANGED <<bulkVars, hist, docVars>>
  /\ UNCHANGED <<selVars, defaultPackages, selectedDevice, deviceSeen,
                 versionSeen, currentConfigName,
                 currentConfigId>>

\* applyConfigurationState: firmwareStore.selectDevice(savedConfig.device.model)
LoadSelectDevice ==
  /\ load.pc = "device"
  /\ Get(load.doc.device, "model")[2] \in Devices
  /\ load' = [load EXCEPT !.pc = "apply"]
  /\ selectedDevice' = Get(load.doc.device, "model")[2]
  /\ defaultPackages' = ProfileDefaults(Get(load.doc.device, "model")[2])
  /\ LifeFrame
  /\ UNCHANGED <<selVars, currentVersion, deviceSeen, versionSeen,
                 currentConfigName,
                 currentConfigId>>

\* the end of applyConfigurationState, as if a shared configuration were
\* marked like a stored one
markCurrent_asStored(savedConfig, markAsShared) ==
  [currentConfigId |-> savedConfig.id[2],
   currentConfigName |-> savedConfig.name[2],
   lastUsedConfigId |-> savedConfig.id[2]]

\* the end of applyConfigurationState: the configuration store's current
\* id and name and the persisted last-used id
markCurrent(savedConfig, markAsShared) ==
  IF markAsShared
    THEN [currentConfigId |-> "",
          currentConfigName |->
            IF Truthy(savedConfig.name) THEN savedConfig.name[2]
            ELSE "Shared Configuration",
          lastUsedConfigId |-> lastUsedConfigId]
    ELSE [currentConfigId |-> savedConfig.id[2],
          currentConfigName |-> savedConfig.name[2],
          lastUsedConfigId |-> savedConfig.id[2]]

\* applyConfigurationState after its last await: applySnapshot and the
\* bookkeeping of the current configuration
LoadApply ==
  /\ load.pc = "apply"
  /\ load' = [load EXCEPT !.pc = "idle", !.doc = EmptyDoc]
  /\ Install(applySnapshot(load.doc.customBuild))
  /\ ApplySnapshotStore(load.doc.customBuild)
  /\ currentConfigId' = markCurrent(load.doc, load.shared).currentConfigId
  /\ currentConfigName' = markCurrent(load.doc, load.shared).currentConfigName
  /\ Quiet
  /\ UNCHANGED <<job, fetches, catalog, loaded, edits, reposAdded, lastFetch,
                 buildVars>>
  /\ watchDone' = "none"
  /\ Record("apply", <<>>)
  /\ lastUsedConfigId' = markCurrent(load.doc, load.shared).lastUsedConfigId
  /\ UNCHANGED <<bulkVars, input, savedConfigs, file, imp, now, idsGenerated,
                 error>>
  /\ UNCHANGED <<defaultPackages, selectedDevice, currentVersion, deviceSeen,
                 versionSeen>>

\* configStore.newConfiguration (the button next to the current name)
NewConfiguration ==
  /\ currentConfigName # ""
  /\ currentConfigId' = ""
  /\ currentConfigName' = ""
  /\ selectedDevice' = NoDevice
  /\ defaultPackages' = ProfileDefaults(NoDevice)
  /\ Install(reset(clearAllPackages))
  /\ ResetStore
  /\ lastUsedConfigId' = ""
  /\ error' = ""
  /\ Quiet
  /\ UNCHANGED <<job, fetches, catalog, loaded, edits, reposAdded, lastFetch,
                 buildVars>>
  /\ watchDone' = "none"
  /\ UNCHANGED <<bulkVars, hist, input, savedConfigs, file, imp, now,
                 idsGenerated>>
  /\ UNCHANGED <<currentVersion, deviceSeen, versionSeen, load>>

\* the application with a device and a version chosen, no watcher pending,
\* and the stored configurations, last-used id and load given
AppWith(device, version, configs, lastUsed, l) ==
  /\ addedPackages = <<>>
  /\ removedPackages = <<>>
  /\ defaultPackages = ProfileDefaults(device)
  /\ bulkInput = <<>>
  /\ bulkRequiresConfirmation = FALSE
  /\ bulkConfirmationSignature = <<>>
  /\ hist = <<NoOp, NoOp>>
  /\ selectedDevice = device
  /\ currentVersion = version
  /\ deviceSeen = device
  /\ versionSeen = version
  /\ load = l
  /\ currentConfigName = ""
  /\ currentConfigId = ""
  /\ watchDone = "none"
  /\ input = NoInput
  /\ savedConfigs = configs
  /\ file = <<>>
  /\ imp = NoImport
  /\ now = StartTime
  /\ idsGenerated = 0
  /\ error = ""
  /\ lastUsedConfigId = lastUsed

\* the application with nothing stored and no load in progress
AppAt(device, version) == AppWith(device, version, <<>>, "", NoLoad)

\* the application right after start, nothing loaded
AppIdle == AppAt(NoDevice, NoVersion)

LifeInit == AppIdle /\ FeedIdle

LifeNext ==
  \/ LoadVersions
  \/ \E v \in Versions : ChangeVersion(v)
  \/ \E d \in Devices : SelectDevice(d)
  \/ WatchSelectedDevice
  \/ WatchCurrentVersion
  \/ \E n \in PkgNames : TogglePackage(n)
  \/ \E doc \in SavedDocs : LoadStart(doc)
  \/ LoadSelectDevice
  \/ LoadApply
  \/ NewConfiguration

SpecLife == LifeInit /\ [][LifeNext]_vars

(***************************************************************************)
(* Import and export of configuration documents                            *)
(***************************************************************************)
InputIds == {Undef, Str(""), Str("c1")}
InputNames == {Str(""), Arr(<<"cfg">>), Str("cfg")}
InputVersions == {Undef, Str("0.9.0"), Str(CURRENT_VERSION)}
InputCreated == {Undef, Iso(StartTime), Str("soon")}
InputDevices ==
  { Device(Str("d1"), Str("t"), Undef, Str("v1")),
    Device(Str("d1"), Str("t"), Str("p"), Undef),
    Device(Undef, Str(""), Str("p"), Str("v1")),
    Undef }
InputPackageConfigurations ==
  { PackageConfiguration(Arr(<<"vim">>), Arr(<<"base">>)),
    PackageConfiguration(Arr(<<"vim">>), Arr(<<"vim">>)),
    PackageConfiguration(Arr(<<"vim">>), Undef) }
InputUciDefaults == {Str("script")}
InputRepositories == {Arr(<<"repo">>), Undef}
InputRepositoryKeys == {Arr(<<>>), Str("key")}
InputCustomBuilds ==
  { CustomBuild(pc, u, repos, keys) :
      pc \in InputPackageConfigurations, u \in InputUciDefaults,
      repos \in InputRepositories, keys \in InputRepositoryKeys }
  \cup {Undef}
InputModules ==
  { Undef, Null, Modules(Arr(<<"src">>), Arr(<<>>)),
    Modules(Undef, Arr(<<>>)) }

InputDoc(i, v, c, n, d, cb, m) ==
  [EmptyDoc EXCEPT
     !.id = i, !.name = n, !.description = Str("text"), !.version = v,
     !.createdAt = c, !.device = d, !.customBuild = cb, !.modules = m]

\* documents a user may paste or pick as a file: well-formed ones with
\* every id, version and creation time, and every shape with one of each
InputDocs ==
  { InputDoc(i, v, c, Str("cfg"),
             Device(Str("d1"), Str("t"), Undef, Str("v1")),
             CustomBuild(pc, Str("script"), Arr(<<"repo">>), Arr(<<>>)), m) :
      i \in InputIds, v \in InputVersions, c \in InputCreated,
      pc \in { PackageConfiguration(Arr(<<"vim">>), Arr(<<"base">>)),
               PackageConfiguration(Arr(<<"vim">>), Arr(<<"vim">>)) },
      m \in {Undef, Modules(Arr(<<"src">>), Arr(<<>>))} }
  \cup
  { InputDoc(Str("c1"), Str(CURRENT_VERSION), Iso(StartTime), n, d, cb, m) :
      n \in InputNames, d \in InputDevices, cb \in InputCustomBuilds,
      m \in InputModules }

InputContents ==
  { Content(k[1], k[2], doc) :
      k \in {<<"json", FALSE>>, <<"yaml", TRUE>>, <<"yaml", FALSE>>},
      doc \in InputDocs }
  \cup { Content("text", FALSE, EmptyDoc), Content("broken", FALSE, EmptyDoc) }

Formats == {"json", "yaml"}

DocFrame ==
  /\ Quiet
  /\ UNCHANGED feedVars
  /\ watchDone' = "none"
  /\ UNCHANGED <<recVars, lifeVars>>

\* ConfigurationManager.vue importConfiguration -> configStore ->
\* configManager.importConfiguration, then saveConfiguration on success
ImportConfiguration(content, format, source) ==
  LET res == importConfiguration(content, format) IN
    /\ imp' = [source |-> source, format |-> format, data |-> content.doc,
               result |-> res]
    /\ idsGenerated' = IF res.success /\ res.config.id = generateId
                         THEN idsGenerated + 1 ELSE idsGenerated
    /\ IF res.success
         THEN /\ savedConfigs' = saveConfiguration(savedConfigs, res.config)
              /\ lastUsedConfigId' = res.config.id[2]
              /\ input' = NoInput
         ELSE UNCHANGED <<savedConfigs, lastUsedConfigId, input>>
    /\ UNCHANGED <<file, now, error>>
    /\ DocFrame

\* the import button with the pasted content of the form
ImportForm ==
  /\ input # NoInput
  /\ ImportConfiguration(input.content, input.format, "form")

\* the import button after a downloaded export was picked as the file
ImportFile(format) ==
  /\ file # <<>>
  /\ ImportConfiguration(file[1].content, format, "file")

\* configStore.exportConfiguration(id, options) -> downloadConfiguration
ExportConfiguration(i, options) ==
  /\ i \in 1..Len(savedConfigs)
  /\ LET config == savedConfigs[i] IN
       IF exportThrows(config, options)
         THEN file' = <<>> /\ error' = "config-error-export"
         ELSE /\ file' = <<[content |-> exportConfiguration(config, options),
                            options |-> options, config |-> config]>>
              /\ UNCHANGED error
  /\ imp' = NoImport
  /\ UNCHANGED <<input, savedConfigs, lastUsedConfigId, now, idsGenerated>>
  /\ DocFrame

\* time passes between two operations
Tick ==
  /\ now < MaxTime
  /\ now' = now + 1
  /\ UNCHANGED <<recVars, lifeVars, watchDone, input, savedConfigs, file,
                 imp, lastUsedConfigId, idsGenerated, error, feedVars>>

DocInit ==
  /\ addedPackages = <<>>
  /\ removedPackages = <<>>
  /\ defaultPackages = ProfileDefaults(NoDevice)
  /\ bulkInput = <<>>
  /\ bulkRequiresConfirmation = FALSE
  /\ bulkConfirmationSignature = <<>>
  /\ hist = <<NoOp, NoOp>>
  /\ selectedDevice = NoDevice
  /\ currentVersion = "v1"
  /\ deviceSeen = NoDevice
  /\ versionSeen = "v1"
  /\ load = NoLoad
  /\ currentConfigName = ""
  /\ currentConfigId = ""
  /\ watchDone = "none"
  /\ input \in [content : InputContents, format : Formats]
  /\ savedConfigs = <<>>
  /\ file = <<>>
  /\ imp = NoImport
  /\ now = StartTime
  /\ idsGenerated = 0
  /\ error = ""
  /\ FeedIdle
  /\ lastUsedConfigId = ""

DocNext ==
  \/ ImportForm
  \/ \E format \in Formats : ImportFile(format)
  \/ \E i \in 1..Len(savedConfigs), options \in ExportOptions :
       ExportConfiguration(i, options)
  \/ Tick

SpecDoc == DocInit /\ [][DocNext]_vars

(***************************************************************************)
(* Package service: strings.  A string is the sequence of its characters;  *)
(* a package name that matters as a whole ("libc") stands as one element.  *)
(***************************************************************************)
\* longest dependency string and entry, in characters
MaxDepLen == 4

\* the end of a line
NL == "\n"

IsSpace(c) == c \in {" ", NL, "\r"}

\* String.prototype.trim
RECURSIVE trimStart(_)
trimStart(str) ==
  IF str # <<>> /\ IsSpace(Head(str)) THEN trimStart(Tail(str)) ELSE str

RECURSIVE trimEnd(_)
trimEnd(str) ==
  IF str # <<>> /\ IsSpace(str[Len(str)])
    THEN trimEnd(SubSeq(str, 1, Len(str) - 1)) ELSE str

trim(str) == trimEnd(trimStart(str))

\* str.split(sep) for a separator of one character
RECURSIVE split(_, _)
split(str, sep) ==
  LET hits == {i \in 1..Len(str) : str[i] = sep} IN
  IF hits = {} THEN <<str>>
  ELSE LET i == CHOOSE k \in hits : \A m \in hits : k <= m
       IN  <<SubSeq(str, 1, i - 1)>> \o split(SubSeq(str, i + 1, Len(str)), sep)

\* the match of /^([^...]+)/ for the excluded characters stop; <<>> is no
\* match
RECURSIVE matchPrefix(_, _)
matchPrefix(str, stop) ==
  IF str = <<>> \/ Head(str) \in stop THEN <<>>
  ELSE <<Head(str)>> \o matchPrefix(Tail(str), stop)

\* parseDependencies that strips the constraint before it filters libc
parseDependencies_stripFirst(dependsStr) ==
  IF dependsStr = <<>> THEN <<>>
  ELSE
    LET parts == split(dependsStr, ",")
        stripped == [i \in 1..Len(parts) |->
                       trim(matchPrefix(trim(parts[i]), {"("}))]
    IN  SelectSeq(stripped, LAMBDA dep : dep # <<>> /\ dep # <<"libc">>)

parseDependencies(dependsStr) ==
  IF dependsStr = <<>> THEN <<>>
  ELSE
    LET parts == split(dependsStr, ",")
        trimmed == [i \in 1..Len(parts) |-> trim(parts[i])]
        named == SelectSeq(trimmed,
                           LAMBDA dep : dep # <<>> /\ dep # <<"libc">>)
        strip(dep) == LET match == matchPrefix(dep, {"("})
                      IN  IF match # <<>> THEN trim(match) ELSE dep
        stripped == [i \in 1..Len(named) |-> strip(named[i])]
    IN  SelectSeq(stripped, LAMBDA dep : dep # <<>>)

OperatorChars == {"<", ">", "=", "~", " "}

\* cleanAdbDependency that falls back to the empty string
cleanAdbDependency_emptyFallback(dep) ==
  LET bare == IF dep # <<>> /\ Head(dep) = "!" THEN Tail(dep) ELSE dep
  IN  matchPrefix(bare, OperatorChars)

cleanAdbDependency(dep) ==
  LET bare == IF dep # <<>> /\ Head(dep) = "!" THEN Tail(dep) ELSE dep
      m == matchPrefix(bare, OperatorChars)
  IN  IF m # <<>> THEN trim(m) ELSE trim(dep)

\* the depends of a record mapAdbPackages makes from e.depends
adbDepends(dependsRaw) ==
  SelectSeq([i \in 1..Len(dependsRaw) |-> cleanAdbDependency(dependsRaw[i])],
            LAMBDA d : d # <<>> /\ d # <<"libc">>)

(***************************************************************************)
(* Package service: the text ("Packages") format                           *)
(***************************************************************************)
\* content.split('\n\n')
RECURSIVE splitBlocks(_)
splitBlocks(content) ==
  LET hits == {i \in 1..(Len(content) - 1) :
                 content[i] = NL /\ content[i + 1] = NL}
  IN  IF hits = {} THEN <<content>>
      ELSE LET i == CHOOSE k \in hits : \A m \in hits : k <= m
           IN  <<SubSeq(content, 1, i - 1)>>
                 \o splitBlocks(SubSeq(content, i + 2, Len(content)))


Digits == {"0", "1", "2"}
DigitValue(c) == IF c = "0" THEN 0 ELSE IF c = "1" THEN 1 ELSE 2

\* the value of a sequence of digits
RECURSIVE digitsValue(_)
digitsValue(ds) ==
  IF ds = <<>> THEN 0
  ELSE 10 * digitsValue(SubSeq(ds, 1, Len(ds) - 1)) + DigitValue(ds[Len(ds)])

\* parseInt(value, 10) || 0
parseIntOrZero(value) ==
  LET v == trimStart(value)
      signed == v # <<>> /\ Head(v) \in {"-", "+"}
      ds == matchPrefix(IF signed THEN Tail(v) ELSE v,
                        {c \in Range(v) : c \notin Digits})
  IN  IF ds = <<>> THEN 0
      ELSE IF signed /\ Head(v) = "-" THEN 0 - digitsValue(ds)
      ELSE digitsValue(ds)

PackageFields ==
  {"name", "version", "depends", "license", "section", "url", "cpeId",
   "architecture", "installedSize", "filename", "size", "sha256sum",
   "description", "source"}

\* the record a block starts from: { source }
NewPackage(source) ==
  [f \in PackageFields |-> IF f = "source" THEN source ELSE Undef]

\* one round of the loop over the lines of a block
parseLine(pkg, line) ==
  LET colons == {i \in 1..Len(line) : line[i] = ":"} IN
  IF colons = {} THEN pkg
  ELSE
    LET colonIndex == CHOOSE k \in colons : \A m \in colons : k <= m
        key == trim(SubSeq(line, 1, colonIndex - 1))
        value == trim(SubSeq(line, colonIndex + 1, Len(line)))
    IN  CASE key = <<"Package">> -> [pkg EXCEPT !.name = value]
          [] key = <<"Version">> -> [pkg EXCEPT !.version = value]
          [] key = <<"Depends">> ->
               [pkg EXCEPT !.depends = Arr(parseDependencies(value))]
          [] key = <<"License">> -> [pkg EXCEPT !.license = value]
          [] key = <<"Section">> -> [pkg EXCEPT !.section = value]
          [] key = <<"URL">> -> [pkg EXCEPT !.url = value]
          [] key = <<"CPE-ID">> -> [pkg EXCEPT !.cpeId = value]
          [] key = <<"Architecture">> -> [pkg EXCEPT !.architecture = value]
          [] key = <<"Installed-Size">> ->
               [pkg EXCEPT !.installedSize = Num(parseIntOrZero(value))]
          [] key = <<"Filename">> -> [pkg EXCEPT !.filename = value]
          [] key = <<"Size">> ->
               [pkg EXCEPT !.size = Num(parseIntOrZero(value))]
          [] key = <<"SHA256sum">> -> [pkg EXCEPT !.sha256sum = value]
          [] key = <<"Description">> -> [pkg EXCEPT !.description = value]
          [] OTHER -> pkg

RECURSIVE parseLines(_, _)
parseLines(pkg, lines) ==
  IF lines = <<>> THEN pkg
  ELSE parseLines(parseLine(pkg, Head(lines)), Tail(lines))

\* a required field that is undefined or the empty string
Missing(v) == v = Undef \/ v = <<>>

\* parsePackageBlock: the record as Obj(pkg), or Null
parsePackageBlock(block, source) ==
  LET pkg == parseLines(NewPackage(source), split(block, NL)) IN
  IF Missing(pkg.name) \/ Missing(pkg.version) \/ Missing(pkg.architecture)
       \/ Missing(pkg.filename)
    THEN Null ELSE Obj(pkg)

\* the blocks that are not blank
packageBlocks(content) ==
  SelectSeq(splitBlocks(content), LAMBDA block : trim(block) # <<>>)

\* the loop of parsePackagesFile over the blocks
RECURSIVE parseBlocks(_, _)
parseBlocks(blocks, source) ==
  IF blocks = <<>> THEN <<>>
  ELSE LET pkg == parsePackageBlock(Head(blocks), source)
       IN  (IF pkg = Null THEN <<>> ELSE <<pkg[2]>>)
             \o parseBlocks(Tail(blocks), source)

\* parsePackagesFile that gives up at the first block without a record
parsePackagesFile_stopAtBad(content, source) ==
  LET blocks == packageBlocks(content)
      bad == {i \in 1..Len(blocks) : parsePackageBlock(blocks[i], source) = Null}
      good == IF bad = {} THEN blocks
              ELSE SubSeq(blocks, 1, (CHOOSE k \in bad : \A m \in bad : k <= m) - 1)
  IN  parseBlocks(good, source)

parsePackagesFile(content, source) ==
  parseBlocks(packageBlocks(content), source)

(***************************************************************************)
(* Package service: decoded entries of the binary (ADB) index              *)
(***************************************************************************)
\* a value that is undefined or the empty string
Falsy(v) == v = Undef \/ v = <<>>

\* the record of one decoded entry e
adbRecord(e, source) ==
  [f \in PackageFields |->
     CASE f = "name" -> e.name
       [] f = "version" -> e.version
       [] f = "depends" ->
            Arr(adbDepends(IF IsArray(e.depends) THEN e.depends[2] ELSE <<>>))
       [] f = "license" -> e.license
       [] f = "section" -> <<>>
       [] f = "url" -> e.url
       [] f = "architecture" -> e.arch
       [] f = "installedSize" ->
            IF e.installedSize = Undef THEN Num(0) ELSE e.installedSize
       [] f = "filename" ->
            e.name \o <<"_">> \o e.version \o <<"_">> \o e.arch \o <<".apk">>
       [] f = "size" -> IF e.fileSize = Undef THEN Num(0) ELSE e.fileSize
       [] f = "sha256sum" -> IF Falsy(e.hashes) THEN <<>> ELSE e.hashes
       [] f = "description" ->
            IF Falsy(e.description) THEN <<>> ELSE e.description
       [] f = "source" -> source
       [] OTHER -> Undef]

\* the entries mapAdbPackages does not skip
adbUsable(e) ==
  /\ e # Null
  /\ ~Falsy(e[2].name) /\ ~Falsy(e[2].version) /\ ~Falsy(e[2].arch)

\* mapAdbPackages that only skips the entries that are null
mapAdbPackages_keepsIncomplete(entries, source) ==
  LET kept == SelectSeq(entries, LAMBDA e : e # Null)
  IN  [i \in 1..Len(kept) |-> adbRecord(kept[i][2], source)]

mapAdbPackages(entries, source) ==
  LET kept == SelectSeq(entries, adbUsable)
  IN  [i \in 1..Len(kept) |-> adbRecord(kept[i][2], source)]

(***************************************************************************)
(* Package service: the dependency tree                                    *)
(***************************************************************************)
\* packages.find(p => p.name === pkgName): the first one as Obj(p), or Undef
find(packages, pkgName) ==
  LET hits == {i \in 1..Len(packages) : packages[i].name = pkgName}
  IN  IF hits = {} THEN Undef
      ELSE Obj(packages[CHOOSE k \in hits : \A m \in hits : k <= m])

\* addDependencies on walk = [visited, dependencies], and its loop over the
\* rest of pkg.depends
RECURSIVE addDependencies(_, _, _)
RECURSIVE forDepends(_, _, _)
addDependencies(walk, packages, pkgName) ==
  IF pkgName \in walk.visited THEN walk
  ELSE
    LET entered == [walk EXCEPT !.visited = @ \cup {pkgName}]
        pkg == find(packages, pkgName)
    IN  IF pkg # Undef /\ pkg[2].depends # Undef
          THEN forDepends(entered, packages, pkg[2].depends[2])
          ELSE entered

forDepends(walk, packages, deps) ==
  IF deps = <<>> THEN walk
  ELSE
    LET dep == Head(deps)
        after ==
          IF dep \notin walk.visited
            THEN addDependencies(
                   [walk EXCEPT !.dependencies = Append(@, dep)],
                   packages, dep)
            ELSE walk
    IN  forDepends(after, packages, Tail(deps))

\* getDependencyTree that stops at the direct dependencies
getDependencyTree_direct(packageName, packages) ==
  LET pkg == find(packages, packageName)
  IN  IF pkg # Undef /\ pkg[2].depends # Undef
        THEN SelectSeq(Unique(pkg[2].depends[2]), LAMBDA d : d # packageName)
        ELSE <<>>

getDependencyTree(packageName, packages) ==
  addDependencies([visited |-> {}, dependencies |-> <<>>],
                  packages, packageName).dependencies

(***************************************************************************)
(* Package service: calls with bounded arguments                           *)
(***************************************************************************)
DependsChars == {"libc", "a", " ", ",", "(", ")"}
AdbChars == {"!", "libc", "a"} \cup OperatorChars

Job(fn, arg) == [fn |-> fn, input |-> arg, output |-> <<>>, done |-> FALSE]

\* the Depends values, with the example "libfoo (>= 1.2.0), libc"
DependsValues ==
  SeqsUpTo(DependsChars, MaxDepLen)
    \cup {<<"a", " ", "(", ">", "=", " ", "1", ")", ",", " ", "libc">>}

\* decoded depends lists of one or two entries
AdbDependsLists ==
  {<<e>> : e \in SeqsUpTo(AdbChars, MaxDepLen)}
    \cup {<<e, <<"a">>>> : e \in SeqsUpTo(AdbChars, MaxDepLen - 1)}

\* a line "key: value"
Line(key, value) == <<key, ":", " ">> \o value

RECURSIVE Join(_, _)
Join(parts, sep) ==
  IF parts = <<>> THEN <<>>
  ELSE IF Len(parts) = 1 THEN parts[1]
  ELSE parts[1] \o sep \o Join(Tail(parts), sep)

BlockOf(lines) == Join(lines, <<NL>>)

LuciLines ==
  <<Line("Package", <<"l", "u">>), Line("Version", <<"2", ".", "0">>),
    Line("Architecture", <<"m">>), Line("Filename", <<"l", ".", "i">>)>>

\* blocks of a Packages file: complete ones, ones that miss a field, and
\* ones that hold no field at all
PackagesBlocks ==
  { BlockOf(LuciLines),
    BlockOf(<<Line("Filename", <<"v">>), <<"Architecture", ":", "m">>,
              Line("Depends", <<"a", ",", " ", "libc">>),
              Line("URL", <<"h", ":", "u">>), Line("Size", <<"1", "2">>),
              <<" ", "Version", " ", ":", "1", " ">>,
              Line("Package", <<"v">>)>>),
    BlockOf(<<Line("Package", <<"n">>), Line("Version", <<"1">>),
              Line("Architecture", <<"m">>)>>),
    BlockOf(<<Line("Package", <<>>), Line("Version", <<"1">>),
              Line("Architecture", <<"m">>), Line("Filename", <<"e">>)>>),
    BlockOf(<<Line("Package", <<"d">>), Line("Package", <<>>)>>),
    BlockOf(<<Line("Filename", <<"f">>)>>),
    BlockOf(<<<<"l", "u">>, <<" ">>>>),
    <<" ">>,
    <<>> }

MaxBlocks == 3
MaxNewlines == 3

Newlines(n) == [i \in 1..n |-> NL]

\* contents of up to k blocks with one or more line ends between them
RECURSIVE PackagesContents(_)
PackagesContents(k) ==
  IF k = 1 THEN PackagesBlocks
  ELSE LET shorter == PackagesContents(k - 1)
       IN  shorter \cup
             {c \o Newlines(n) \o b :
                c \in shorter, n \in 1..MaxNewlines, b \in PackagesBlocks}

FeedSource == <<"f">>

\* longest depends list of a package of the tree
MaxDeps == 2

KnownNames == {"a", "b", "c"}
UnknownName == "u"

Pkg(name, depends) == [name |-> name, depends |-> depends]

\* depends of a and of b: none, or any list of names; of c: none, empty,
\* back to a, or b and a name without a package
DependsLists ==
  {Undef} \cup {Arr(l) : l \in SeqsUpTo(KnownNames \cup {UnknownName}, MaxDeps)}

LastDependsLists ==
  {Undef, Arr(<<>>), Arr(<<"a">>), Arr(<<"b", UnknownName>>)}

PackageSets ==
  {<<Pkg("a", da), Pkg("b", db), Pkg("c", dc)>> :
     da \in DependsLists, db \in DependsLists, dc \in LastDependsLists}

TreeCalls ==
  {[name |-> n, packages |-> ps] :
     n \in {"a", UnknownName}, ps \in PackageSets}

\* longest Size and Installed-Size value, in characters
MaxSizeLen == 2

SizeChars == {"0", "1", "-", "x"}

\* complete blocks with a Size line and, or, an Installed-Size line
SizeContents ==
  LET values == SeqsUpTo(SizeChars, MaxSizeLen)
  IN  {BlockOf(LuciLines \o <<Line("Size", v)>>) : v \in values}
        \cup {BlockOf(LuciLines \o <<Line("Installed-Size", v),
                                     Line("Size", w)>>) :
                 v \in values, w \in values}

\* most decoded entries of an index
MaxEntries == 2

\* a decoded entry: an object, of which name, version and arch may be
\* missing or empty, or null
AdbEntry(name, version, arch, depends) ==
  Obj([name |-> name, version |-> version, arch |-> arch,
       depends |-> depends, license |-> Undef, url |-> Undef,
       installedSize |-> Undef, fileSize |-> Num(1), hashes |-> Undef,
       description |-> <<"d">>])

AdbEntries ==
  {Null} \cup
    {AdbEntry(n, v, a, d) :
       n \in {Undef, <<>>, <<"x">>, <<"y">>},
       v \in {Undef, <<>>, <<"1">>},
       a \in {Undef, <<"m">>},
       d \in {Undef, Arr(<<<<"!", "a">>, <<"libc">>>>)}}

\* the calls, one set for each function
Jobs(fn) ==
  CASE fn = "parseDependencies" -> {Job(fn, v) : v \in DependsValues}
    [] fn = "adbDepends" -> {Job(fn, l) : l \in AdbDependsLists}
    [] fn = "parsePackagesFile" ->
         {Job(fn, c) : c \in PackagesContents(MaxBlocks) \cup SizeContents}
    [] fn = "getDependencyTree" -> {Job(fn, c) : c \in TreeCalls}
    [] fn = "mapAdbPackages" ->
         {Job(fn, l) : l \in SeqsUpTo(AdbEntries, MaxEntries)}

JobNames ==
  {"parseDependencies", "adbDepends", "parsePackagesFile", "getDependencyTree",
   "mapAdbPackages"}

finish(j, out) == [j EXCEPT !.output = out, !.done = TRUE]

Called(fn) == job.fn = fn /\ job.done

JobFrame ==
  UNCHANGED <<recVars, lifeVars, watchDone, docVars, error, repoVars,
              snapVars, buildVars>>

RunParseDependencies ==
  /\ job.fn = "parseDependencies" /\ ~job.done
  /\ job' = finish(job, parseDependencies(job.input))
  /\ JobFrame

RunAdbDepends ==
  /\ job.fn = "adbDepends" /\ ~job.done
  /\ job' = finish(job, adbDepends(job.input))
  /\ JobFrame

RunParsePackagesFile ==
  /\ job.fn = "parsePackagesFile" /\ ~job.done
  /\ job' = finish(job, parsePackagesFile(job.input, FeedSource))
  /\ JobFrame

RunGetDependencyTree ==
  /\ job.fn = "getDependencyTree" /\ ~job.done
  /\ job' = finish(job, getDependencyTree(job.input.name, job.input.packages))
  /\ JobFrame

RunMapAdbPackages ==
  /\ job.fn = "mapAdbPackages" /\ ~job.done
  /\ job' = finish(job, mapAdbPackages(job.input, FeedSource))
  /\ JobFrame

ParseInit == AppIdle /\ RepoIdle /\ BuildIdle /\ \E fn \in JobNames : job \in Jobs(fn)

ParseNext ==
  \/ RunParseDependencies
  \/ RunAdbDepends
  \/ RunParsePackagesFile
  \/ RunGetDependencyTree
  \/ RunMapAdbPackages

SpecParse == ParseInit /\ [][ParseNext]_vars

(***************************************************************************)
(* Custom repositories (CustomBuild.vue) and the package catalog           *)
(***************************************************************************)
MaxRepos == 2
\* the most edits of name and URL fields
MaxEdits == 4
\* the most entries added
MaxAdds == 2

RepoNames == {<<>>, <<"A">>, <<"B">>}
RepoUrls == {<<>>, <<"a">>, <<"b", "/">>, <<"b", "/", "Packages">>}

\* the URL loadRepositoryIndex fetches for a repository URL
feedUrlOf(url) ==
  LET u == trim(url)
      n == Len(u)
  IN  IF n >= 2 /\ u[n - 1] = "/" /\ u[n] = "Packages" THEN u
      ELSE IF n >= 1 /\ u[n] = "/" THEN u \o <<"Packages">>
      ELSE u \o <<"/", "Packages">>

\* what the network serves: two feeds that both hold the package "lu"
FeedContent(feedUrl) ==
  IF feedUrl = <<"a", "/", "Packages">>
    THEN Join(<<BlockOf(LuciLines),
                BlockOf(<<Line("Package", <<"v">>), Line("Version", <<"1">>),
                          Line("Architecture", <<"m">>),
                          Line("Filename", <<"v", ".", "i">>)>>)>>,
              <<NL, NL>>)
    ELSE BlockOf(<<Line("Package", <<"l", "u">>), Line("Version", <<"3">>),
                   Line("Architecture", <<"m">>),
                   Line("Filename", <<"l", ".", "i">>)>>) \o <<NL>>

\* fetchFeedPackages, once the response is there
fetchFeedPackages(feedUrl, feedName) ==
  parsePackagesFile(FeedContent(feedUrl), feedName)

\* repo.name || 'custom'
OrCustom(name) == IF name # <<>> THEN name ELSE <<"custom">>

\* a new entry; key tells the entries apart, failed says that its last
\* fetch failed and that name and URL were not edited since
NewRepository(key) ==
  [key |-> key, failed |-> FALSE, name |-> <<>>, url |-> <<>>,
   loading |-> FALSE, packages |-> Undef, error |-> Undef]

\* customBuildStore.updateRepository
updateRepository(repos, index, payload) ==
  IF index \notin 1..Len(repos) THEN repos
  ELSE [repos EXCEPT ![index] =
          [f \in DOMAIN @ |->
             IF f \in DOMAIN payload THEN payload[f] ELSE @[f]]]

\* customBuildStore.removeRepository: splice(index, 1)
removeRepository(repos, index) ==
  SubSeq(repos, 1, index - 1) \o SubSeq(repos, index + 1, Len(repos))

\* merge that keeps the records of the catalog next to the new ones
addCustomFeedPackages_keepsBoth(records, feedName, packages) ==
  records \o packages

\* packageStore.addCustomFeedPackages: the catalog is keyed by package name,
\* a later record replaces the earlier one of the same name
addCustomFeedPackages(records, feedName, packages) ==
  LET Later(q, i) == \E j \in (i + 1)..Len(q) : q[j].name = q[i].name
      fresh == {packages[i].name : i \in 1..Len(packages)}
      kept == SelectSeq(records, LAMBDA r : r.name \notin fresh)
      idx == {i \in 1..Len(packages) : ~Later(packages, i)}
  IN  kept \o SelectSeq(packages,
                        LAMBDA r : \E i \in idx : packages[i] = r)

\* packageStore.removeCustomFeedPackages: the records of the feed go
removeCustomFeedPackages(records, feedName) ==
  SelectSeq(records, LAMBDA r : r.source # feedName)

\* the end of the try block that merges only for an entry that is still there
mergeFetched_unlessRemoved(records, repos, fetch, packages) ==
  IF fetch.index \in 1..Len(repos)
    THEN addCustomFeedPackages(records, repos[fetch.index].name, packages)
    ELSE records

\* the end of the try block: current?.name || repo.name || 'custom'
mergeFetched(records, repos, fetch, packages) ==
  LET current == IF fetch.index \in 1..Len(repos)
                   THEN repos[fetch.index].name ELSE <<>>
      feedName == IF current # <<>> THEN current ELSE fetch.feedName
  IN  addCustomFeedPackages(records, feedName, packages)

\* the watcher on repositories: the entry is to be loaded
AutoLoad(repo) ==
  /\ trim(repo.name) # <<>>
  /\ trim(repo.url) # <<>>
  /\ ~repo.loading
  /\ repo.packages = Undef

\* the entry with the key is there
Present(repos, key) == \E i \in 1..Len(repos) : repos[i].key = key

\* the entry with the key, if it is there, has failed
MarkFailed(repos, key) ==
  [i \in 1..Len(repos) |->
     IF repos[i].key = key THEN [repos[i] EXCEPT !.failed = TRUE]
     ELSE repos[i]]

RepoFrame ==
  UNCHANGED <<recVars, lifeVars, watchDone, docVars, error, job, snapVars,
              buildVars>>

AddRepository ==
  /\ Len(repositories) < MaxRepos
  /\ reposAdded < MaxAdds
  /\ repositories' = Append(repositories, NewRepository(reposAdded + 1))
  /\ reposAdded' = reposAdded + 1
  /\ UNCHANGED <<fetches, catalog, loaded, edits, lastFetch>>
  /\ RepoFrame

\* the name field of an entry
SetRepositoryName(index, name) ==
  /\ index \in 1..Len(repositories)
  /\ repositories[index].name # name
  /\ edits < MaxEdits
  /\ repositories' = [repositories EXCEPT ![index].name = name,
                                          ![index].failed = FALSE]
  /\ edits' = edits + 1
  /\ UNCHANGED <<fetches, catalog, loaded, reposAdded, lastFetch>>
  /\ RepoFrame

\* the URL field of an entry
SetRepositoryUrl(index, url) ==
  /\ index \in 1..Len(repositories)
  /\ repositories[index].url # url
  /\ edits < MaxEdits
  /\ repositories' = [repositories EXCEPT ![index].url = url,
                                          ![index].failed = FALSE]
  /\ edits' = edits + 1
  /\ UNCHANGED <<fetches, catalog, loaded, reposAdded, lastFetch>>
  /\ RepoFrame

\* loadRepositoryIndex, called by the watcher, up to its await
LoadRepositoryIndex(index) ==
  /\ index \in 1..Len(repositories)
  /\ AutoLoad(repositories[index])
  /\ repositories[index].url # <<>>
  /\ repositories' =
       updateRepository(repositories, index,
                        [loading |-> TRUE, error |-> Undef])
  /\ fetches' = fetches \cup
       {[index |-> index,
         key |-> repositories[index].key,
         feedUrl |-> feedUrlOf(repositories[index].url),
         feedName |-> OrCustom(repositories[index].name)]}
  /\ UNCHANGED <<catalog, loaded, edits, reposAdded, lastFetch>>
  /\ RepoFrame

\* the fetch gives its packages: the rest of the try block
FetchResolved(fetch) ==
  /\ fetch \in fetches
  /\ LET packages == fetchFeedPackages(fetch.feedUrl, fetch.feedName)
         updated == updateRepository(repositories, fetch.index,
                      [packages |-> Arr(packages), loading |-> FALSE])
     IN  /\ repositories' = updated
         /\ catalog' = mergeFetched(catalog, updated, fetch, packages)
         /\ loaded' = Append(loaded, packages)
  /\ fetches' = fetches \ {fetch}
  /\ lastFetch' = [key |-> fetch.key, outcome |-> "resolved",
                   present |-> Present(repositories, fetch.key)]
  /\ UNCHANGED <<edits, reposAdded>>
  /\ RepoFrame

\* the fetch fails: the catch block
FetchRejected(fetch) ==
  /\ fetch \in fetches
  /\ repositories' =
       MarkFailed(
         updateRepository(repositories, fetch.index,
                          [error |-> Str("custom-repo-load-error"),
                           loading |-> FALSE]),
         fetch.key)
  /\ fetches' = fetches \ {fetch}
  /\ lastFetch' = [key |-> fetch.key, outcome |-> "rejected",
                   present |-> Present(repositories, fetch.key)]
  /\ UNCHANGED <<catalog, loaded, edits, reposAdded>>
  /\ RepoFrame

\* the delete button of an entry
RemoveRepository(index) ==
  /\ index \in 1..Len(repositories)
  /\ LET repo == repositories[index]
     IN  catalog' = IF repo.name # <<>> /\ repo.packages # Undef
                      THEN removeCustomFeedPackages(catalog, repo.name)
                      ELSE catalog
  /\ repositories' = removeRepository(repositories, index)
  /\ UNCHANGED <<fetches, loaded, edits, reposAdded, lastFetch>>
  /\ RepoFrame

\* resetCustomConfiguration, as the watchers call it after a change of
\* device or version: polling stops, the build state is cleared and the
\* store's reset empties the repositories and the selection
ResetCustomConfiguration ==
  /\ Install(resetCustomConfiguration(cur))
  /\ ResetCustom
  /\ UNCHANGED <<defaultPackages, bulkVars, hist, lifeVars, watchDone,
                 docVars, error, job>>

FeedInit == AppIdle /\ FeedIdle

FeedNext ==
  \/ AddRepository
  \/ \E i \in 1..MaxRepos : \E n \in RepoNames : SetRepositoryName(i, n)
  \/ \E i \in 1..MaxRepos : \E u \in RepoUrls : SetRepositoryUrl(i, u)
  \/ \E i \in 1..MaxRepos : LoadRepositoryIndex(i)
  \/ \E f \in fetches : FetchResolved(f)
  \/ \E f \in fetches : FetchRejected(f)
  \/ \E i \in 1..MaxRepos : RemoveRepository(i)
  \/ ResetCustomConfiguration

SpecFeed == FeedInit /\ [][FeedNext]_vars

(***************************************************************************)
(* Build request and status polling (CustomBuild.vue)                      *)
(***************************************************************************)
\* a response of the build server for build request r
Status(r, httpStatus) == Obj([request |-> r, httpStatus |-> httpStatus])

\* the HTTP status codes of a status response: done, in progress, failed
HttpStatuses == {200, 202, 500}

Event(type, r) == [type |-> type, request |-> r]

BuildFrame ==
  UNCHANGED <<recVars, lifeVars, watchDone, docVars, error, job, repoVars,
              snapVars>>

\* requestBuild up to its await; the button is disabled while isBuilding
RequestBuild ==
  /\ selectedDevice # NoDevice
  /\ ~isBuilding
  /\ buildsRequested < MaxBuilds
  /\ isBuilding' = TRUE
  /\ buildError' = ""
  /\ buildsRequested' = buildsRequested + 1
  /\ requestPending' = buildsRequested + 1
  /\ UNCHANGED <<buildStatus, pollInterval, polls, pollsStarted, emitted,
                 stale>>
  /\ BuildFrame

\* the build request is answered: the response is shown and, if it has a
\* request hash, startPolling replaces the timer
RequestAnswered(hasHash) ==
  /\ requestPending # 0
  /\ buildStatus' = Status(requestPending, 202)
  /\ pollInterval' = IF hasHash THEN requestPending ELSE pollInterval
  /\ isBuilding' = FALSE
  /\ requestPending' = 0
  /\ UNCHANGED <<buildError, buildsRequested, polls, pollsStarted, emitted,
                 stale>>
  /\ BuildFrame

\* the build request fails: the catch block
RequestFailed ==
  /\ requestPending # 0
  /\ buildError' = "custom-build-request-failed"
  /\ emitted' = Append(emitted, Event("build-error", requestPending))
  /\ isBuilding' = FALSE
  /\ requestPending' = 0
  /\ UNCHANGED <<buildStatus, pollInterval, buildsRequested, polls,
                 pollsStarted, stale>>
  /\ BuildFrame

\* the timer fires: the callback asks for the status and awaits it
PollTick ==
  /\ pollInterval # 0
  /\ pollsStarted < MaxPolls
  /\ polls' = [polls EXCEPT ![pollInterval] = @ + 1]
  /\ pollsStarted' = pollsStarted + 1
  /\ UNCHANGED <<isBuilding, buildStatus, buildError, pollInterval,
                 buildsRequested, requestPending, emitted, stale>>
  /\ BuildFrame

\* a status response arrives: the rest of the try block of the callback
PollAnswered(r, httpStatus) ==
  /\ polls[r] > 0
  /\ polls' = [polls EXCEPT ![r] = @ - 1]
  /\ buildStatus' = Status(r, httpStatus)
  /\ pollInterval' = IF httpStatus = 200 \/ httpStatus >= 400
                       THEN 0 ELSE pollInterval
  /\ emitted' =
       IF httpStatus = 200 THEN Append(emitted, Event("build-success", r))
       ELSE IF httpStatus >= 400 THEN Append(emitted, Event("build-error", r))
       ELSE emitted
  /\ UNCHANGED <<isBuilding, buildError, buildsRequested, requestPending,
                 pollsStarted, stale>>
  /\ BuildFrame

\* the status request fails: the catch block of the callback
PollFailed(r) ==
  /\ polls[r] > 0
  /\ polls' = [polls EXCEPT ![r] = @ - 1]
  /\ pollInterval' = 0
  /\ emitted' = Append(emitted, Event("build-error", r))
  /\ UNCHANGED <<isBuilding, buildStatus, buildError, buildsRequested,
                 requestPending, pollsStarted, stale>>
  /\ BuildFrame

\* resetBuild: the close button of the build status, there while a status
\* is shown
ResetBuild ==
  /\ buildStatus # Null
  /\ buildStatus' = Null
  /\ buildError' = ""
  /\ pollInterval' = 0
  /\ stale' = 1..buildsRequested
  /\ UNCHANGED <<isBuilding, buildsRequested, requestPending, polls,
                 pollsStarted, emitted>>
  /\ BuildFrame

BuildInit == AppAt("d1", "v1") /\ FeedIdle

BuildNext ==
  \/ RequestBuild
  \/ \E hasHash \in BOOLEAN : RequestAnswered(hasHash)
  \/ RequestFailed
  \/ PollTick
  \/ \E r \in 1..MaxBuilds : \E h \in HttpStatuses : PollAnswered(r, h)
  \/ \E r \in 1..MaxBuilds : PollFailed(r)
  \/ ResetBuild
  \/ ResetCustomConfiguration

SpecBuild == BuildInit /\ [][BuildNext]_vars

(***************************************************************************)
(* The configuration store: save, load, delete, shared configurations      *)
(***************************************************************************)
\* most ids that saving generates
MaxConfigs == 1

\* customBuildStore.getSnapshot
getSnapshot ==
  LET kept == SelectSeq(repositories,
                        LAMBDA r : trim(r.name) # <<>> /\ trim(r.url) # <<>>)
  IN  SetField(
        CustomBuild(
          PackageConfiguration(Arr(addedPackages), Arr(removedPackages)),
          IF uciDefaults # "" THEN Str(uciDefaults) ELSE Undef,
          Arr([i \in 1..Len(kept) |->
                 Obj([name |-> Str(trim(kept[i].name)),
                      url |-> Str(trim(kept[i].url))])]),
          Arr(repositoryKeys)),
        "rootfsSizeMb", IF rootfsSizeMb = Null THEN Undef ELSE rootfsSizeMb)

\* the entries of the stored list with a given id
WithId(configs, id) == {i \in 1..Len(configs) : configs[i].id = Str(id)}

\* buildConfigurationData: the id in use is kept, else a new one is made
buildConfigurationData(name) ==
  LET useExistingId == currentConfigId # ""
      known == WithId(savedConfigs, currentConfigId)
  IN  [EmptyDoc EXCEPT
         !.id = IF useExistingId THEN Str(currentConfigId) ELSE generateId,
         !.name = Str(name),
         !.version = Str(CURRENT_VERSION),
         !.createdAt =
           IF useExistingId /\ known # {}
             THEN savedConfigs[CHOOSE i \in known : TRUE].createdAt
             ELSE DateV(now),
         !.updatedAt = DateV(now),
         !.device = Device(Str(selectedDevice), Str("t"), Str("p"),
                           Str(currentVersion)),
         !.customBuild = getSnapshot]

\* configStore.saveCurrentConfiguration
SaveCurrentConfiguration ==
  /\ selectedDevice # NoDevice
  /\ currentConfigId # "" \/ idsGenerated < MaxConfigs
  /\ LET configData == buildConfigurationData("cfg") IN
       /\ savedConfigs' = saveConfiguration(savedConfigs, configData)
       /\ lastUsedConfigId' = configData.id[2]
       /\ currentConfigId' = configData.id[2]
       /\ currentConfigName' = configData.name[2]
  /\ idsGenerated' = IF currentConfigId = "" THEN idsGenerated + 1
                     ELSE idsGenerated
  /\ error' = ""
  /\ Quiet
  /\ watchDone' = "none"
  /\ UNCHANGED <<recVars, selectedDevice, currentVersion, deviceSeen,
                 versionSeen, load, input, file, imp, now, feedVars>>

\* the texts the user imports into the store: a configuration for a device
\* that the device list does not have
ImportContents ==
  {Content("json", FALSE, JsonDoc(SavedDoc("d9", "v1", <<"vim">>, <<>>)))}

\* the import dialog of the configuration manager
ImportStored ==
  \E content \in ImportContents : ImportConfiguration(content, "json", "form")

\* configManager.getConfigurationSummaries: the entries the store lists
Summaries(configs) ==
  SelectSeq(configs,
            LAMBDA c : Truthy(Get(c.customBuild, "packageConfiguration")))

\* configs.sort((a, b) => b.updatedAt - a.updatedAt)[0]
mostRecent(configs) ==
  configs[CHOOSE i \in 1..Len(configs) :
            \A j \in 1..Len(configs) :
              \/ newDate(configs[j].updatedAt)[2]
                   < newDate(configs[i].updatedAt)[2]
              \/ /\ newDate(configs[j].updatedAt)[2]
                      = newDate(configs[i].updatedAt)[2]
                 /\ i <= j]

\* the list of the load dialog: an entry is clicked; the entries are
\* disabled while a load is in progress
LoadConfiguration(i) ==
  /\ i \in 1..Len(savedConfigs)
  /\ LoadStart(savedConfigs[i])

\* applyConfigurationState: the device of the configuration is not known
LoadDeviceMissing ==
  /\ load.pc = "device"
  /\ ~load.shared
  /\ Get(load.doc.device, "model")[2] \notin Devices
  /\ load' = NoLoad
  /\ error' = "config-error-device-missing"
  /\ Quiet
  /\ watchDone' = "none"
  /\ UNCHANGED <<recVars, selectedDevice, currentVersion, deviceSeen,
                 versionSeen, currentConfigName, currentConfigId, docVars,
                 feedVars>>

\* configManager.deleteConfiguration
deleteConfiguration(configs, id) ==
  SelectSeq(configs, LAMBDA c : c.id # Str(id))

\* configStore.deleteConfiguration: the entry goes, and the most recently
\* updated of the entries left is loaded.  At most one load is followed at
\* a time.
DeleteConfiguration(id) ==
  LET left == deleteConfiguration(savedConfigs, id)
      listed == Summaries(left)
  IN  /\ WithId(savedConfigs, id) # {}
      /\ load.pc = "idle" \/ listed = <<>>
      /\ savedConfigs' = left
      /\ lastUsedConfigId' = IF lastUsedConfigId = id THEN ""
                             ELSE lastUsedConfigId
      /\ currentConfigId' = IF currentConfigId = id THEN ""
                            ELSE currentConfigId
      /\ currentConfigName' = IF currentConfigId = id THEN ""
                              ELSE currentConfigName
      /\ IF listed # <<>>
           THEN BeginLoad(mostRecent(listed), FALSE)
           ELSE UNCHANGED <<load, currentVersion, error>>
      /\ Quiet
      /\ watchDone' = "none"
      /\ UNCHANGED <<recVars, selectedDevice, deviceSeen, versionSeen, input,
                     file, imp, now, idsGenerated, feedVars>>

\* configStore.autoLoadLastConfig: the last-used configuration is loaded,
\* and a last-used id without a configuration is cleared
autoLoadLastConfig(otherwise) ==
  LET known == WithId(savedConfigs, lastUsedConfigId) IN
    IF lastUsedConfigId # "" /\ known # {}
      THEN /\ BeginLoad(savedConfigs[CHOOSE i \in known :
                                       \A j \in known : i <= j], FALSE)
           /\ UNCHANGED lastUsedConfigId
      ELSE /\ load' = NoLoad
           /\ lastUsedConfigId' = ""
           /\ error' = otherwise
           /\ UNCHANGED currentVersion

\* the page was opened with or without a config parameter; with one, its
\* value decodes to a configuration or to nothing
SharedDocs ==
  { [SavedDoc(d, "v2", <<"vim">>, <<>>) EXCEPT !.id = Str("share_1")] :
      d \in {"d1", "d9"} }

Mounting ==
  { [pc |-> "mount", doc |-> doc, reset |-> FALSE, shared |-> shared] :
      doc \in SharedDocs \cup {EmptyDoc}, shared \in BOOLEAN }
    \ { [pc |-> "mount", doc |-> doc, reset |-> FALSE, shared |-> FALSE] :
          doc \in SharedDocs }

\* the timer the store sets at its creation: autoLoadLastConfig, when the
\* page has no config parameter
StartupAutoLoad ==
  /\ load.pc = "mount"
  /\ ~load.shared
  /\ autoLoadLastConfig(error)
  /\ Quiet
  /\ watchDone' = "none"
  /\ UNCHANGED <<recVars, selectedDevice, deviceSeen, versionSeen,
                 currentConfigName, currentConfigId, input, savedConfigs,
                 file, imp, now, idsGenerated, feedVars>>

\* App.vue onMounted with a config parameter: loadSharedConfiguration up to
\* the first await, or its failure and the autoLoadLastConfig that follows
LoadSharedConfiguration ==
  /\ load.pc = "mount"
  /\ load.shared
  /\ currentVersion # NoVersion
  /\ IF load.doc = EmptyDoc
       THEN autoLoadLastConfig("config-error-shared-invalid")
       ELSE BeginLoad(load.doc, TRUE) /\ UNCHANGED lastUsedConfigId
  /\ Quiet
  /\ watchDone' = "none"
  /\ UNCHANGED <<recVars, selectedDevice, deviceSeen, versionSeen,
                 currentConfigName, currentConfigId, input, savedConfigs,
                 file, imp, now, idsGenerated, feedVars>>

\* the shared configuration names a device that is not known: the load
\* fails and App.vue calls autoLoadLastConfig
SharedDeviceMissing ==
  /\ load.pc = "device"
  /\ load.shared
  /\ Get(load.doc.device, "model")[2] \notin Devices
  /\ autoLoadLastConfig("config-error-device-missing")
  /\ Quiet
  /\ watchDone' = "none"
  /\ UNCHANGED <<recVars, selectedDevice, deviceSeen, versionSeen,
                 currentConfigName, currentConfigId, input, savedConfigs,
                 file, imp, now, idsGenerated, feedVars>>

\* what an earlier visit has left in storage
StoredBefore ==
  { <<configs, lastUsed>> \in
      {<<>>, <<readStored(JsonDoc(SavedDoc("d1", "v1", <<"vim">>, <<>>)))>>}
        \X {"", "c1"} :
      lastUsed = "" \/ WithId(configs, lastUsed) # {} }

ConfigInit ==
  /\ \E stored \in StoredBefore : \E l \in Mounting :
       AppWith(NoDevice, NoVersion, stored[1], stored[2], l)
  /\ FeedIdle

ConfigNext ==
  \/ LoadVersions
  \/ SelectDevice("d1")
  \/ WatchSelectedDevice
  \/ WatchCurrentVersion
  \/ SaveCurrentConfiguration
  \/ ImportStored
  \/ \E i \in 1..MaxConfigs + 1 : LoadConfiguration(i)
  \/ LoadSelectDevice
  \/ LoadDeviceMissing
  \/ LoadApply
  \/ \E i \in 1..Len(savedConfigs) : DeleteConfiguration(savedConfigs[i].id[2])
  \/ NewConfiguration
  \/ StartupAutoLoad
  \/ LoadSharedConfiguration
  \/ SharedDeviceMissing

SpecConfig == ConfigInit /\ [][ConfigNext]_vars

(***************************************************************************)
(* Text format properties                                                  *)
(***************************************************************************)
\* the lines of a content, and its blocks: the longest runs of lines that
\* are not empty
LinesOf(content) == split(content, NL)

BlockStarts(lines) ==
  {i \in 1..Len(lines) : lines[i] # <<>> /\ (i = 1 \/ lines[i - 1] = <<>>)}

BlockEnd(lines, i) ==
  CHOOSE j \in i..Len(lines) :
    /\ \A k \in i..j : lines[k] # <<>>
    /\ (j = Len(lines) \/ lines[j + 1] = <<>>)

\* the value the lines first..final give to a key: that of the last line
\* whose text before the first colon is the key
FieldOf(lines, first, final, key) ==
  LET KeyOf(l) ==
        LET c == CHOOSE k \in 1..Len(l) :
                   l[k] = ":" /\ \A m \in 1..(k - 1) : l[m] # ":"
        IN  trim(SubSeq(l, 1, c - 1))
      ValueOf(l) ==
        LET c == CHOOSE k \in 1..Len(l) :
                   l[k] = ":" /\ \A m \in 1..(k - 1) : l[m] # ":"
        IN  trim(SubSeq(l, c + 1, Len(l)))
      hits == {i \in first..final :
                 ":" \in Range(lines[i]) /\ KeyOf(lines[i]) = <<key>>}
  IN  IF hits = {} THEN <<>>
      ELSE ValueOf(lines[CHOOSE i \in hits : \A m \in hits : m <= i])

RequiredKeys == <<"Package", "Version", "Architecture", "Filename">>

RequiredOf(lines, i) ==
  [k \in 1..4 |-> FieldOf(lines, i, BlockEnd(lines, i), RequiredKeys[k])]

\* the starts of the blocks that have the four required values
CompleteBlocks(lines) ==
  {i \in BlockStarts(lines) : \A k \in 1..4 : RequiredOf(lines, i)[k] # <<>>}

RECURSIVE Ascending(_)
Ascending(S) ==
  IF S = {} THEN <<>>
  ELSE LET least == CHOOSE k \in S : \A m \in S : k <= m
       IN  <<least>> \o Ascending(S \ {least})

RequiredOfRecord(pkg) ==
  <<pkg.name, pkg.version, pkg.architecture, pkg.filename>>

\* C15: parsePackagesFile returns one record for each block that has a
\* non-empty name, version, architecture and filename, in the order of the
\* input, and nothing for any other block: a block without a record does
\* not stop the blocks after it.
C15_RecordPerBlock ==
  Called("parsePackagesFile") =>
    LET lines == LinesOf(job.input)
        starts == Ascending(CompleteBlocks(lines))
    IN  /\ Len(job.output) = Len(starts)
        /\ \A i \in 1..Len(starts) :
             RequiredOfRecord(job.output[i]) = RequiredOf(lines, starts[i])

\* a block without a record is followed by a block with one
C15_Witness ==
  /\ Called("parsePackagesFile")
  /\ Len(job.output) = 2
  /\ LET lines == LinesOf(job.input)
     IN  \E i \in BlockStarts(lines) \ CompleteBlocks(lines) :
           /\ \E j \in CompleteBlocks(lines) : j < i
           /\ \E j \in CompleteBlocks(lines) : j > i

HasKey(lines, key) ==
  \E i \in 1..Len(lines) :
    \E c \in 1..Len(lines[i]) :
      /\ lines[i][c] = ":"
      /\ \A m \in 1..(c - 1) : lines[i][m] # ":"
      /\ trim(SubSeq(lines[i], 1, c - 1)) = <<key>>

\* C17: a content of one block that has Package, Version, Architecture and
\* Filename lines and no Depends line gives exactly one record, with those
\* four values and the empty sequence as depends.
C17_NoDependsLine ==
  LET lines == LinesOf(job.input) IN
  (/\ Called("parsePackagesFile")
   /\ BlockStarts(lines) = {1}
   /\ CompleteBlocks(lines) = {1}
   /\ ~HasKey(lines, "Depends")) =>
    /\ Len(job.output) = 1
    /\ RequiredOfRecord(job.output[1]) = RequiredOf(lines, 1)
    /\ job.output[1].depends = Arr(<<>>)

\* a non-negative integer
IsSize(v) == Len(v) = 2 /\ v[1] = "num" /\ v[2] >= 0

\* parseInt finds an integer: digits, after an optional sign
ParsesAsInteger(value) ==
  LET digits == IF value # <<>> /\ Head(value) \in {"-", "+"}
                  THEN Tail(value) ELSE value
  IN  digits # <<>> /\ Head(digits) \in Digits

\* C23: in every record of a text feed the download size and the installed
\* size are integers that are 0 or more, and 0 when the value of the Size or
\* Installed-Size line does not parse as an integer.
C23_SizesNotNegative ==
  Called("parsePackagesFile") =>
    LET lines == LinesOf(job.input)
        starts == Ascending(CompleteBlocks(lines))
    IN  \A i \in 1..Len(job.output) :
          LET final == BlockEnd(lines, starts[i])
              size == FieldOf(lines, starts[i], final, "Size")
              installed == FieldOf(lines, starts[i], final, "Installed-Size")
          IN  /\ IsSize(job.output[i].size)
              /\ IsSize(job.output[i].installedSize)
              /\ ~ParsesAsInteger(size) => job.output[i].size = Num(0)
              /\ ~ParsesAsInteger(installed) =>
                    job.output[i].installedSize = Num(0)

\* the places of the entries that have name, version and arch
Complete(entries) ==
  {i \in 1..Len(entries) :
     /\ entries[i] # Null
     /\ \A f \in {"name", "version", "arch"} :
          entries[i][2][f] \notin {Undef, <<>>}}

\* C24: mapAdbPackages gives one record for each decoded entry that has
\* name, version and arch, in the order of the entries, with the empty
\* string as section and name_version_arch.apk as filename, and no record
\* for an entry that misses one of the three.
C24_AdbRecords ==
  Called("mapAdbPackages") =>
    LET places == Ascending(Complete(job.input))
    IN  /\ Len(job.output) = Len(places)
        /\ \A i \in 1..Len(places) :
             LET e == job.input[places[i]][2]
                 pkg == job.output[i]
             IN  /\ pkg.name = e.name
                 /\ pkg.version = e.version
                 /\ pkg.architecture = e.arch
                 /\ pkg.section = <<>>
                 /\ pkg.filename =
                      e.name \o <<"_">> \o e.version \o <<"_">> \o e.arch
                        \o <<".apk">>

\* two entries of which only the one named y is complete
C24_Witness ==
  /\ Called("mapAdbPackages")
  /\ Len(job.input) = 2
  /\ Len(job.output) = 1
  /\ job.output[1].filename = <<"y", "_", "1", "_", "m", ".apk">>
  /\ job.input[1] # Null

(***************************************************************************)
(* Dependency tree properties                                              *)
(***************************************************************************)
\* the depends edges of a package set
DependsOf(packages, n) ==
  LET hits == {i \in 1..Len(packages) : packages[i].name = n}
  IN  IF hits = {} THEN {}
      ELSE UNION {IF packages[i].depends = Undef THEN {}
                  ELSE Range(packages[i].depends[2]) : i \in hits}

\* the names that k or fewer edges lead to from the names of S
RECURSIVE Within(_, _, _)
Within(packages, S, k) ==
  IF k = 0 THEN S
  ELSE LET near == Within(packages, S, k - 1)
       IN  near \cup UNION {DependsOf(packages, n) : n \in near}

\* the names reachable from n through one or more edges
Reachable(packages, n) ==
  Within(packages, DependsOf(packages, n), Len(packages))

\* depth first with a stack of names still to look at: a name is
\* discovered when it is taken from the stack for the first time, and its
\* depends go on the stack with the first on top
RECURSIVE Discover(_, _, _)
Discover(packages, stack, found) ==
  IF stack = <<>> THEN found
  ELSE LET n == Head(stack)
           pkg == find(packages, n)
           deps == IF pkg = Undef \/ pkg[2].depends = Undef
                     THEN <<>> ELSE pkg[2].depends[2]
       IN  IF n \in Range(found)
             THEN Discover(packages, Tail(stack), found)
             ELSE Discover(packages, deps \o Tail(stack), Append(found, n))

\* C19: getDependencyTree returns, for every package set (with cycles and
\* with depends on names that have no package), a sequence without
\* duplicates of exactly the names reachable from name through one or more
\* depends edges, name itself left out, in the order a depth-first walk
\* that takes the first dependency first discovers them.
C19_DependencyTree ==
  Called("getDependencyTree") =>
    LET name == job.input.name
        packages == job.input.packages
    IN  /\ \A i, j \in 1..Len(job.output) :
             job.output[i] = job.output[j] => i = j
        /\ Range(job.output) = Reachable(packages, name) \ {name}
        /\ job.output = Tail(Discover(packages, <<name>>, <<>>))

\* a cycle through name, a name without a package, and a name that is
\* reached twice
C19_Witness ==
  /\ Called("getDependencyTree")
  /\ job.input.name \in Reachable(job.input.packages, job.input.name)
  /\ UnknownName \in Range(job.output)
  /\ Len(job.output) = 3
  /\ \E i \in 1..3 : job.input.packages[i].depends = Arr(<<"c", "c">>)

(***************************************************************************)
(* Catalog properties                                                      *)
(***************************************************************************)
NamesOf(packages) == {packages[i].name : i \in 1..Len(packages)}

RecordsOf(packages, n) == {i \in 1..Len(packages) : packages[i].name = n}

\* C20: when a feed B is merged after a feed A and both hold a package
\* name, the catalog then holds exactly one record under that name, and it
\* is the record of feed B.
C20_LastFeedWins ==
  [][(loaded' # loaded /\ loaded # <<>>) =>
       LET feedA == loaded[Len(loaded)]
           feedB == loaded'[Len(loaded')]
       IN  \A n \in NamesOf(feedA) \cap NamesOf(feedB) :
             /\ Cardinality(RecordsOf(catalog', n)) = 1
             /\ \A i \in RecordsOf(catalog', n) :
                  \A j \in RecordsOf(feedB, n) : catalog'[i] = feedB[j]]_vars

\* feed A and then feed B were merged, with different records for a name
C20_Witness ==
  /\ Len(loaded) = 2
  /\ \E i \in 1..Len(loaded[1]) : \E j \in 1..Len(loaded[2]) :
       /\ loaded[1][i].name = loaded[2][j].name
       /\ loaded[1][i].version # loaded[2][j].version
       /\ loaded[1][i].source # loaded[2][j].source

\* what the user sees of an entry
Shown(repo) ==
  [name |-> repo.name, url |-> repo.url, loading |-> repo.loading,
   packages |-> repo.packages, error |-> repo.error]

\* the step is the failure of the fetch f
Rejects(f) ==
  /\ f \in fetches
  /\ fetches' = fetches \ {f}
  /\ loaded' = loaded

\* C21: when the fetch of a repository fails, the error is recorded on the
\* entry of that repository only: every other entry keeps its packages,
\* loading flag and error, and the catalog is unchanged, whatever entries
\* were added or removed while the fetch was in flight.
C21_ErrorOnOwnEntry ==
  [][\A f \in fetches :
       Rejects(f) =>
         /\ catalog' = catalog
         /\ Len(repositories') = Len(repositories)
         /\ \A i \in 1..Len(repositories) :
              IF repositories[i].key = f.key
                THEN repositories'[i].error # Undef
                ELSE Shown(repositories'[i]) = Shown(repositories[i])]_vars

\* the step is the completion of a fetch with its packages
Resolves == loaded' # loaded

\* C22: a fetch in flight is never cancelled: removing entries or resetting
\* the configuration leaves the fetches in flight, and when a fetch
\* resolves, each package of its feed is the one record of the catalog
\* under its name, also when the entry of the fetch is gone.
C22_StaleFetchMerges ==
  [][/\ Len(repositories') < Len(repositories) => fetches' = fetches
     /\ Resolves =>
          LET packages == loaded'[Len(loaded')]
          IN  \A i \in 1..Len(packages) :
                /\ Cardinality(RecordsOf(catalog', packages[i].name)) = 1
                /\ \E j \in 1..Len(catalog') : catalog'[j] = packages[i]]_vars

\* a fetch has resolved after its entry was removed, and its packages are
\* in the catalog
C22_Witness ==
  /\ lastFetch.outcome = "resolved"
  /\ ~lastFetch.present
  /\ fetches = {}
  /\ loaded # <<>>
  /\ catalog = loaded[Len(loaded)]

\* C25: a fetch is issued only for an entry whose last fetch did not fail,
\* or whose name or URL was edited after the failure.
C25_NoRetry ==
  [][\A f \in fetches' \ fetches :
       \A i \in 1..Len(repositories) :
         repositories[i].key = f.key => ~repositories[i].failed]_vars

(***************************************************************************)
(* Build polling properties                                                *)
(***************************************************************************)
EventsOf(r) == {i \in 1..Len(emitted) : emitted[i].request = r}

\* C26: for one build request the poller emits build-success at most once
\* and nothing after a build-success or build-error, also when several
\* status polls are in flight together.
C26_OneFinalEvent ==
  \A r \in 1..MaxBuilds :
    \A i, j \in EventsOf(r) :
      i < j => emitted[i].type \notin {"build-success", "build-error"}

\* C27: after a reset has stopped polling, no response of a build request
\* made before the reset is applied: no status of such a request is shown
\* and no build-success or build-error is emitted for it.
C27_NothingAfterReset ==
  [][/\ (buildStatus' # buildStatus /\ buildStatus' # Null) =>
          buildStatus'[2].request \notin stale'
     /\ Len(emitted') > Len(emitted) =>
          emitted'[Len(emitted')].request \notin stale']_vars

(***************************************************************************)
(* Reconciler properties                                                   *)
(***************************************************************************)
added == Range(addedPackages)
removed == Range(removedPackages)
last == hist[2]
before == hist[1]
lastName == last.names[1]

\* C1: no package name is in both addedPackages and removedPackages, in
\* every state reached by add, remove, toggle, restore, bulk add and clear.
C1_Disjoint == added \cap removed = {}

C1_Witness ==
  /\ added # {}
  /\ removed # {}
  /\ last.op = "bulk"

\* C2: remove(n) of a name that is not a device default only deletes n
\* from addedPackages, and every name in removedPackages is a device default.
C2_RemovedAreDefaults ==
  /\ removed \subseteq defaultPackages
  /\ (last.op = "remove" /\ lastName \notin defaultPackages) =>
        /\ added = last.preAdded \ {lastName}
        /\ removed = last.preRemoved

C2_Witness ==
  /\ last.op = "remove"
  /\ lastName \notin defaultPackages
  /\ lastName \in last.preAdded
  /\ removed # {}

\* C3: add(n) of a device default only clears its removal marker and
\* leaves addedPackages unchanged; add(n) of any other name inserts it into
\* addedPackages.  Bulk add does the same for each of its names.
C3_AddUnexcludesDefault ==
  /\ last.op = "add" =>
        IF lastName \in defaultPackages
          THEN /\ removed = last.preRemoved \ {lastName}
               /\ added = last.preAdded
          ELSE /\ added = last.preAdded \cup {lastName}
               /\ removed = last.preRemoved
  /\ last.op = "bulk" =>
        /\ removed = last.preRemoved \ (Range(last.names) \cap defaultPackages)
        /\ added = last.preAdded \cup (Range(last.names) \ defaultPackages)

C3_Witness ==
  /\ last.op = "add"
  /\ lastName \in defaultPackages
  /\ lastName \in last.preRemoved
  /\ added # {}

\* C4: for a name n that is not a device default, add(n) followed by
\* remove(n) leaves n in neither set and every other name where it was.
C4_AddThenRemove ==
  (before.op = "add" /\ last.op = "remove" /\ lastName \notin defaultPackages) =>
     /\ lastName \notin added \cup removed
     /\ added \ {lastName} = before.preAdded \ {lastName}
     /\ removed \ {lastName} = before.preRemoved \ {lastName}

C4_Witness ==
  /\ before.op = "add"
  /\ last.op = "remove"
  /\ lastName \notin defaultPackages
  /\ lastName \notin before.preAdded
  /\ before.preAdded # {}
  /\ before.preRemoved # {}

\* C5: for a device default n, after remove(n) the build list contains
\* "-" + n; after a restore of n that follows, n is in neither set and the
\* build list contains neither n nor "-" + n.
C5_RemoveThenRestore ==
  /\ (last.op = "remove" /\ lastName \in defaultPackages) =>
        ("-" \o lastName) \in Range(buildPackagesList(cur))
  /\ (before.op = "remove" /\ last.op = "restore"
        /\ lastName \in defaultPackages) =>
        /\ lastName \notin added \cup removed
        /\ lastName \notin Range(buildPackagesList(cur))
        /\ ("-" \o lastName) \notin Range(buildPackagesList(cur))

C5_Witness ==
  /\ before.op = "remove"
  /\ last.op = "restore"
  /\ lastName \in defaultPackages
  /\ buildPackagesList(cur) # <<>>

\* C7: toggle(n) changes no other name and flips n by its status: an
\* available name is inserted into addedPackages, a selected non-default is
\* deleted from addedPackages, a selected default is inserted into
\* removedPackages, a removed name is deleted from removedPackages.
C7_ToggleByStatus ==
  last.op = "toggle" =>
    LET n == lastName
        st == IF n \in last.preAdded
                   \/ (n \in defaultPackages /\ n \notin last.preRemoved)
                THEN "selected"
              ELSE IF n \in last.preRemoved THEN "removed"
              ELSE "available"
    IN  /\ st = "available" =>
              added = last.preAdded \cup {n} /\ removed = last.preRemoved
        /\ (st = "selected" /\ n \notin defaultPackages) =>
              added = last.preAdded \ {n} /\ removed = last.preRemoved
        /\ (st = "selected" /\ n \in defaultPackages) =>
              added = last.preAdded /\ removed = last.preRemoved \cup {n}
        /\ st = "removed" =>
              added = last.preAdded /\ removed = last.preRemoved \ {n}

C7_Witness ==
  /\ last.op = "toggle"
  /\ lastName \in defaultPackages
  /\ lastName \in removed
  /\ added # {}

Init == RecInit

Next == RecNext

Spec == Init /\ [][Next]_vars

(***************************************************************************)
(* Lifecycle properties                                                    *)
(***************************************************************************)
\* C8: once a change of the selected device or of the firmware version has
\* been processed, addedPackages and removedPackages are both empty.
C8_ResetOnChange ==
  watchDone \in {"device", "version"} => added = {} /\ removed = {}

\* the list is the added names followed by the '-'-prefixed removed names
PackagesListShape(l) ==
  /\ Len(l) = Len(addedPackages) + Len(removedPackages)
  /\ \A i \in 1..Len(addedPackages) : l[i] = addedPackages[i]
  /\ \A j \in 1..Len(removedPackages) :
       l[Len(addedPackages) + j] = "-" \o removedPackages[j]

\* C6 as stated: in every reachable selection state buildPackagesList() is
\* the names of addedPackages as bare tokens followed by the names of
\* removedPackages prefixed with '-', and no device default that was not
\* removed appears in it.
C6_PackagesList ==
  LET l == buildPackagesList(cur) IN
    /\ PackagesListShape(l)
    /\ \A n \in defaultPackages \ removed : n \notin Range(l)

\* C6 amended: in every reachable selection state buildPackagesList() is
\* the names of addedPackages as bare tokens followed by the names of
\* removedPackages prefixed with '-', and a device default that is in
\* neither set appears in it neither bare nor prefixed.
C6_PackagesListOfSets ==
  LET l == buildPackagesList(cur) IN
    /\ PackagesListShape(l)
    /\ \A n \in defaultPackages \ (added \cup removed) :
         n \notin Range(l) /\ ("-" \o n) \notin Range(l)

\* a loaded selection with an addition, a removed default and an untouched
\* default
C6_Witness ==
  /\ added # {}
  /\ removed \cap defaultPackages # {}
  /\ defaultPackages \ (added \cup removed) # {}
  /\ currentConfigName # ""

PackageArray(doc, f) ==
  Get(Get(doc.customBuild, "packageConfiguration"), f)[2]

\* the load returns success: applyConfigurationState has applied the
\* snapshot
LoadReturns == load.pc = "apply" /\ load'.pc = "idle"

StringOr(v, d) == IF v[1] = "str" THEN v[2] ELSE d

\* C28: when a load that changed the firmware version or the device
\* returns success, addedPackages and removedPackages are the document's
\* arrays, the first-boot script, the rootfs size, the repositories and the
\* keys are the document's, and no reset is left to run.
C28_LoadedSurvivesReset ==
  [][LoadReturns =>
       LET cb == load.doc.customBuild
           repos == Get(cb, "repositories")[2]
       IN  /\ addedPackages' = PackageArray(load.doc, "addedPackages")
           /\ removedPackages' = PackageArray(load.doc, "removedPackages")
           /\ uciDefaults' = StringOr(Get(cb, "uciDefaults"), "")
           /\ Get(cb, "rootfsSizeMb") \in {rootfsSizeMb', Undef}
           /\ Get(cb, "rootfsSizeMb") = Undef => rootfsSizeMb' = Null
           /\ Len(repositories') = Len(repos)
           /\ \A i \in 1..Len(repos) :
                /\ Str(repositories'[i].name) = Get(repos[i], "name")
                /\ Str(repositories'[i].url) = Get(repos[i], "url")
           /\ repositoryKeys' = Get(cb, "repositoryKeys")[2]
           /\ deviceSeen' = selectedDevice'
           /\ versionSeen' = currentVersion']_vars

\* a load that changed version and device, and during which the reset ran,
\* has returned with a script, a size, a repository and a key
C28_Witness ==
  /\ load.pc = "idle"
  /\ load.reset
  /\ hist[2].op = "apply"
  /\ selectedDevice = "d2"
  /\ currentVersion = "v2"
  /\ addedPackages = <<"vim">>
  /\ removedPackages = <<"luci">>
  /\ uciDefaults = "script"
  /\ rootfsSizeMb = Num(RootfsSize)
  /\ Len(repositories) = 1
  /\ repositoryKeys = <<"key">>

(***************************************************************************)
(* Configuration store properties                                          *)
(***************************************************************************)
\* C29: the persisted last-used configuration id is absent or the id of a
\* configuration in the persisted list, whatever the order of saving,
\* importing, loading, deleting and starting anew, a deletion during a load
\* included.
C29_LastUsedIsStored ==
  lastUsedConfigId = "" \/ WithId(savedConfigs, lastUsedConfigId) # {}

\* a step of the load of a shared configuration
SharedLoadStep == load.shared /\ load.pc # "idle" /\ load'.pc # load.pc

\* C30: the load of a shared configuration leaves the persisted list and
\* the persisted last-used id as they are, and when it has succeeded
\* currentConfigId is empty.
C30_SharedLoadKeepsStorage ==
  [][SharedLoadStep =>
       /\ savedConfigs' = savedConfigs
       /\ lastUsedConfigId' = lastUsedConfigId
       /\ (load.pc = "apply" /\ load'.pc = "idle") => currentConfigId' = ""]_vars

\* a shared configuration was loaded while a stored one was last used and,
\* until then, the current one
C30_Witness ==
  /\ load.shared
  /\ load.pc = "idle"
  /\ hist[2].op = "apply"
  /\ currentConfigId = ""
  /\ currentConfigName = "cfg"
  /\ lastUsedConfigId # ""
  /\ savedConfigs # <<>>

(***************************************************************************)
(* Document properties (specification SpecDoc)                             *)
(***************************************************************************)
\* C9: every document that import accepts has addedPackages and
\* removedPackages with no package name in common.
C9_AcceptedDisjoint ==
  imp.result.success =>
    Range(PackageArray(imp.result.config, "addedPackages"))
      \cap Range(PackageArray(imp.result.config, "removedPackages")) = {}

AllSections(options) ==
  /\ options.includeModuleSources
  /\ options.includePackages
  /\ options.includeUciDefaults

\* two values are the same once written as JSON: a Date is its ISO string
SameValue(a, b) == Json(a) = Json(b)

\* the condition under which an import is the re-import of a full export
FullRoundTrip ==
  /\ imp.source = "file"
  /\ AllSections(file[1].options)
  /\ imp.format = file[1].options.format

\* C10 as stated: importing the export of a stored document, all sections
\* included, in the format it was exported in, succeeds and yields a
\* document equal to the stored one in every field the stored one has
\* except updatedAt and version.
C10_RoundTrip ==
  FullRoundTrip =>
    /\ imp.result.success
    /\ \A f \in DocFields \ {"updatedAt", "version"} :
         file[1].config[f] # Undef =>
           SameValue(imp.result.config[f], file[1].config[f])

\* C10 amended: importing the export of a stored document, all sections
\* included, in the format it was exported in, succeeds and yields a
\* document equal to the stored one in every field the stored one has
\* except updatedAt, version and exportedAt.
C10_RoundTripButStamp ==
  FullRoundTrip =>
    /\ imp.result.success
    /\ \A f \in DocFields \ {"updatedAt", "version", "exportedAt"} :
         file[1].config[f] # Undef =>
           imp.result.config[f] = file[1].config[f]

\* a YAML export of a stored document that was itself imported from an
\* export has been imported again
C10_Witness ==
  /\ FullRoundTrip
  /\ imp.format = "yaml"
  /\ imp.result.success
  /\ file[1].config.exportedAt # Undef
  /\ file[1].config.id = Str("c1")

(***************************************************************************)
(* Validation and import properties (specification SpecDoc)                *)
(***************************************************************************)
\* an import whose content parsed to an object and was validated
Validated ==
  /\ imp.source # "none"
  /\ imp.result.kind \in {"ok", "invalid"}
  /\ imp.result.errors # <<"invalid-format">>

IsObject(v) == v[1] \in {"obj", "arr", "date"}
Has(v, f) == Get(v, f) \notin {Undef, Null, Str("")}

RuleNames ==
  {"missing-name", "missing-device", "missing-device-field:model",
   "missing-device-field:target", "missing-device-field:version",
   "missing-custom-build", "packages-format", "repos-format", "keys-format",
   "modules-format", "module-sources-format", "module-selection-format"}

\* the rule is violated by the document; a rule about the inside of a
\* block only applies when the block is there
RuleBroken(data, rule) ==
  LET pc == Get(data.customBuild, "packageConfiguration") IN
  CASE rule = "missing-name" ->
         ~(data.name[1] \in {"str", "iso"} /\ data.name # Str(""))
    [] rule = "missing-device" -> ~IsObject(data.device)
    [] rule = "missing-device-field:model" ->
         IsObject(data.device) /\ ~Has(data.device, "model")
    [] rule = "missing-device-field:target" ->
         IsObject(data.device) /\ ~Has(data.device, "target")
    [] rule = "missing-device-field:version" ->
         IsObject(data.device) /\ ~Has(data.device, "version")
    [] rule = "missing-custom-build" -> ~IsObject(data.customBuild)
    [] rule = "packages-format" ->
         /\ IsObject(data.customBuild)
         /\ ~(/\ IsObject(pc)
              /\ Get(pc, "addedPackages")[1] = "arr"
              /\ Get(pc, "removedPackages")[1] = "arr")
    [] rule = "repos-format" ->
         /\ IsObject(data.customBuild)
         /\ Get(data.customBuild, "repositories")[1] # "arr"
    [] rule = "keys-format" ->
         /\ IsObject(data.customBuild)
         /\ Get(data.customBuild, "repositoryKeys")[1] # "arr"
    [] rule = "modules-format" ->
         data.modules # Undef /\ ~IsObject(data.modules)
    [] rule = "module-sources-format" ->
         IsObject(data.modules) /\ Get(data.modules, "sources")[1] # "arr"
    [] rule = "module-selection-format" ->
         IsObject(data.modules) /\ Get(data.modules, "selections")[1] # "arr"

\* C11: validation reports every violated rule and does not stop at the
\* first: the error list has exactly one entry for each violated rule and
\* none for a rule that holds.
C11_AllErrors ==
  Validated =>
    /\ Range(imp.result.errors) = {r \in RuleNames : RuleBroken(imp.data, r)}
    /\ Len(imp.result.errors) = Cardinality(Range(imp.result.errors))

\* a document that breaks the name rule, a device field rule, the
\* package-format rule and a modules rule at once was validated
C11_Witness ==
  /\ Validated
  /\ {"missing-name", "missing-device-field:version", "packages-format",
      "module-sources-format"} \subseteq Range(imp.result.errors)

\* the conditions under which a parsed document is to be accepted
Accepts(data) ==
  LET pc == Get(data.customBuild, "packageConfiguration") IN
  /\ data.name[1] \in {"str", "iso"} /\ data.name # Str("")
  /\ IsObject(data.device)
  /\ \A f \in {"model", "target", "version"} : Has(data.device, f)
  /\ IsObject(data.customBuild)
  /\ IsObject(pc)
  /\ \A f \in {"addedPackages", "removedPackages"} : Get(pc, f)[1] = "arr"
  /\ \A f \in {"repositories", "repositoryKeys"} :
       Get(data.customBuild, f)[1] = "arr"
  /\ data.modules # Undef =>
       /\ IsObject(data.modules)
       /\ \A f \in {"sources", "selections"} : Get(data.modules, f)[1] = "arr"

\* C12: import accepts a parsed document exactly when name is a non-empty
\* string, device has model, target and version (profile not required),
\* customBuild has the two package arrays and the repositories and
\* repositoryKeys arrays, and modules, if present, has sources and
\* selections arrays; a rejected import returns no configuration.
C12_AcceptsExactly ==
  (imp.source # "none" /\ imp.result.kind # "parse-failed") =>
    /\ imp.result.success <=> Accepts(imp.data)
    /\ ~imp.result.success => imp.result.config = EmptyDoc

\* a document without device.profile and without modules was accepted
C12_Witness ==
  /\ imp.source = "form"
  /\ imp.result.success
  /\ Get(imp.data.device, "profile") = Undef
  /\ imp.data.modules = Undef

HasId(data) == data.id \notin {Undef, Null, Str("")}
HasOtherVersion(data) ==
  data.version \notin {Undef, Null, Str(""), Str(CURRENT_VERSION)}

\* C13: a successful import returns the document's id when it has one and
\* a freshly generated id otherwise, and the current schema version; it
\* carries a warning exactly when the document had a version different
\* from the current one, and such a version never makes the import fail.
C13_ImportStamps ==
  /\ imp.result.success =>
       /\ HasId(imp.data) => imp.result.config.id = imp.data.id
       /\ ~HasId(imp.data) =>
            /\ imp.result.config.id
                 = Str("config_" \o ToString(idsGenerated - 1))
            /\ Cardinality({i \in 1..Len(savedConfigs) :
                 savedConfigs[i].id = imp.result.config.id}) = 1
       /\ imp.result.config.version = Str(CURRENT_VERSION)
       /\ imp.result.warnings # <<>> <=> HasOtherVersion(imp.data)
  /\ (/\ imp.source # "none"
      /\ imp.result.kind # "parse-failed"
      /\ HasOtherVersion(imp.data)
      /\ Accepts(imp.data)) => imp.result.success

\* a document with an old version and no id was imported
C13_Witness ==
  /\ imp.result.success
  /\ ~HasId(imp.data)
  /\ HasOtherVersion(imp.data)
  /\ imp.result.warnings # <<>>

(***************************************************************************)
(* Export properties (specification SpecDoc)                               *)
(***************************************************************************)
\* the fields of block f of the stored document that the export under
\* options o is to keep as they are
KeptFields(cfg, f, o) ==
  IF cfg[f][1] # "obj" THEN {}
  ELSE DOMAIN cfg[f][2]
         \ ((IF f = "customBuild" /\ ~o.includeUciDefaults
               THEN {"uciDefaults"} ELSE {})
            \cup (IF f = "customBuild" /\ ~o.includePackages
                    THEN {"packageConfiguration"} ELSE {})
            \cup (IF f = "modules" /\ ~o.includeModuleSources
                    THEN {"sources"} ELSE {}))

\* C14: for every stored document, with or without a modules block, export
\* with an option switched off succeeds, removes exactly that section
\* (empty module source list, empty addedPackages and removedPackages, no
\* first-boot script) and keeps every other field of the document.
C14_ExportSections ==
  /\ error # "config-error-export"
  /\ file # <<>> =>
       LET o == file[1].options
           doc == file[1].content.doc
           cfg == file[1].config
       IN  /\ ~o.includeModuleSources =>
                Get(doc.modules, "sources") = Arr(<<>>)
           /\ ~o.includePackages =>
                /\ PackageArray(doc, "addedPackages") = <<>>
                /\ PackageArray(doc, "removedPackages") = <<>>
           /\ ~o.includeUciDefaults =>
                Get(doc.customBuild, "uciDefaults") = Undef
           /\ \A f \in DocFields \ {"exportedAt", "exportVersion",
                                    "customBuild", "modules"} :
                SameValue(doc[f], cfg[f])
           /\ \A f \in {"customBuild", "modules"} :
                \A g \in KeptFields(cfg, f, o) :
                  SameValue(Get(doc[f], g), Get(cfg[f], g))

(***************************************************************************)
(* Package service properties (specification SpecParse)                    *)
(***************************************************************************)

\* the text of an entry before its first '(' , without the blanks around
NameOfEntry(entry) ==
  LET opens == {i \in 1..Len(entry) : entry[i] = "("}
      upTo == IF opens = {} THEN Len(entry)
              ELSE (CHOOSE k \in opens : \A m \in opens : k <= m) - 1
  IN  trim(SubSeq(entry, 1, upTo))

\* C16: parseDependencies returns the comma-separated package names in
\* order, each without its parenthesised version constraint, and no entry
\* of the result is libc.
C16_DependencyNames ==
  Called("parseDependencies") =>
    LET entries == split(job.input, ",")
        names == [i \in 1..Len(entries) |-> NameOfEntry(entries[i])]
    IN  /\ job.output
             = SelectSeq(names, LAMBDA n : n # <<>> /\ n # <<"libc">>)
        /\ <<"libc">> \notin Range(job.output)

\* the first character of a string that is an operator or a blank, or one
\* past the end
FirstOperator(str) ==
  LET hits == {i \in 1..Len(str) : str[i] \in {"<", ">", "=", "~", " "}}
  IN  IF hits = {} THEN Len(str) + 1
      ELSE CHOOSE k \in hits : \A m \in hits : k <= m

\* an entry without a leading '!' and cut at its first operator or blank
BareName(entry) ==
  LET rest == IF entry # <<>> /\ entry[1] = "!"
                THEN SubSeq(entry, 2, Len(entry)) ELSE entry
  IN  SubSeq(rest, 1, FirstOperator(rest) - 1)

\* C18: cleaning a binary-format dependency entry removes a leading '!'
\* and everything from the first '<', '>', '=', '~' or whitespace on; the
\* entries that clean to libc or to the empty string are left out of the
\* depends of the record.
C18_CleanedDepends ==
  Called("adbDepends") =>
    LET names == [i \in 1..Len(job.input) |-> BareName(job.input[i])]
    IN  job.output
          = SelectSeq(names, LAMBDA n : n # <<>> /\ n # <<"libc">>)

====
